---- MODULE Spec2Model ----
(***************************************************************************)
(* State-machine model of generate.py: the corpus walker                   *)
(* (process_source_files / merge_i18n_entries), the catalog reconciler     *)
(* (update_json and the __main__ driver) and the scanner primitives.       *)
(*                                                                         *)
(* Strings that the program only stores are TLA+ strings.  Strings that    *)
(* the program compares for order (keys and source paths in the sort of    *)
(* update_json) are compared through their code points, CodePoints.        *)
(***************************************************************************)
EXTENDS Integers, Sequences, FiniteSets, TLC

\* ------------------------------------------------------------------------
\* Bounds of the model
\* ------------------------------------------------------------------------
MaxCorpus == 2
MaxCatalog == 2
MaxRuns == 2
MaxFiles == 2
MaxOccurrences == 2

\* scanned texts: every text of up to MaxLen characters
MaxLen == 3

\* hexadecimal digits between the braces of an escape \u{...}
MaxHexDigits == 6

\* tokens in the marker attribute of an element
MaxTokens == 2

\* depth of the directory tree below the root
MaxDepth == 2

\* interpolations of a modelled template literal
MaxInterpolations == 2

\* characters of a scanned script text drawn from the alphabet of the scan
MaxScriptLen == 3

\* ------------------------------------------------------------------------
\* OrderedDict: a sequence of <<key, value>> pairs with pairwise distinct keys
\* ------------------------------------------------------------------------
DictKeys(d) == [i \in 1..Len(d) |-> d[i][1]]

KeySetOf(d) == {d[i][1] : i \in 1..Len(d)}

Has(d, k) == k \in KeySetOf(d)

Get(d, k) == d[CHOOSE i \in 1..Len(d) : d[i][1] = k][2]

\* d[k] = v : an existing key keeps its position, a new key is appended
Put(d, k, v) ==
    IF Has(d, k)
    THEN [i \in 1..Len(d) |-> IF d[i][1] = k THEN <<k, v>> ELSE d[i]]
    ELSE Append(d, <<k, v>>)

\* del d[k]
Del(d, k) == SelectSeq(d, LAMBDA e : e[1] # k)

\* the ordered dicts over the keys K and the values V with at most n entries
DictsOver(K, V, n) ==
    {d \in UNION {[1..m -> K \X V] : m \in 0..n} :
        \A i, j \in 1..Len(d) : i # j => d[i][1] # d[j][1]}

\* ------------------------------------------------------------------------
\* Python str ordering.  A string is compared by code points; CodePoints
\* lists the code points of every string the sort of update_json compares.
\* ------------------------------------------------------------------------
CodePoints ==
    [s \in {"", "k1", "k2", "K2", "k3", "kExtra", "filea", "fileb", "filec",
            "greeting", "farewell", "stale"} |->
        CASE s = "" -> <<>>
          [] s = "k1" -> <<107, 49>>
          [] s = "k2" -> <<107, 50>>
          [] s = "K2" -> <<75, 50>>
          [] s = "k3" -> <<107, 51>>
          [] s = "kExtra" -> <<107, 69, 120, 116, 114, 97>>
          [] s = "filea" -> <<102, 105, 108, 101, 97>>
          [] s = "fileb" -> <<102, 105, 108, 101, 98>>
          [] s = "filec" -> <<102, 105, 108, 101, 99>>
          [] s = "greeting" -> <<103, 114, 101, 101, 116, 105, 110, 103>>
          [] s = "farewell" -> <<102, 97, 114, 101, 119, 101, 108, 108>>
          [] s = "stale" -> <<115, 116, 97, 108, 101>>]

\* str.__lt__ on code point sequences: lexicographic, a proper prefix is less
StrLess(a, b) ==
    \E i \in 1..(Len(a) + 1) :
        /\ \A j \in 1..(i - 1) : j <= Len(b) /\ a[j] = b[j]
        /\ \/ i > Len(a) /\ i <= Len(b)
           \/ i <= Len(a) /\ i <= Len(b) /\ a[i] < b[i]

\* str.casefold on the ASCII range: upper-case letters map to lower case
casefold(cp) == [i \in 1..Len(cp) |-> IF cp[i] >= 65 /\ cp[i] <= 90 THEN cp[i] + 32 ELSE cp[i]]

\* sys.maxsize, the ordinal of a key without a recorded position; TLC's
\* integers are 32 bits wide, every ordinal of the model is far below it
sys_maxsize == 2147483647

\* ------------------------------------------------------------------------
\* Scanner primitives.  A text is a sequence of one-character strings, an
\* offset counts from 0 as in the source; a result is [raised, index]:
\* raised when the call ends with an exception, else the offset returned.
\* ------------------------------------------------------------------------
At(source, index) == source[index + 1]

Returns(index) == [raised |-> FALSE, index |-> index]

Raises(index) == [raised |-> TRUE, index |-> index]

HexDigits ==
    {"0", "1", "2", "3", "4", "5", "6", "7", "8", "9",
     "a", "b", "c", "d", "e", "f", "A", "B", "C", "D", "E", "F"}

\* the characters of the modelled texts that str.isspace / str.isalpha accept
IsSpace(char) == char \in {" ", "\n"}

Letters ==
    {"a", "b", "c", "d", "e", "f", "g", "h", "i", "j", "k", "l", "m", "n", "o", "p", "q",
     "r", "s", "t", "u", "v", "w", "x", "y", "z", "A", "F", "H", "K", "L"}

Digits == {"0", "1", "2", "3", "4", "5", "6", "7", "8", "9"}

IsAlpha(char) == char \in Letters

\* chr() accepts the code points below 0x110000
ChrLimit == 1114112

DigitValue(char) ==
    CASE char = "0" -> 0 [] char = "1" -> 1 [] char = "2" -> 2 [] char = "3" -> 3
      [] char = "4" -> 4 [] char = "5" -> 5 [] char = "6" -> 6 [] char = "7" -> 7
      [] char = "8" -> 8 [] char = "9" -> 9
      [] char \in {"a", "A"} -> 10 [] char \in {"b", "B"} -> 11
      [] char \in {"c", "C"} -> 12 [] char \in {"d", "D"} -> 13
      [] char \in {"e", "E"} -> 14 [] char \in {"f", "F"} -> 15

\* int(hex_value, 16) for source[from:to], saturated at ChrLimit: chr() only
\* asks whether the value is below ChrLimit
RECURSIVE HexInt(_, _, _, _)
HexInt(source, from, to, acc) ==
    IF from >= to THEN acc
    ELSE LET v == acc * 16 + DigitValue(At(source, from))
         IN HexInt(source, from + 1, to, IF v > ChrLimit THEN ChrLimit ELSE v)

AllHex(source, from, to) == \A i \in from..(to - 1) : At(source, i) \in HexDigits

\* source.find(char, from): the first offset at or after from, -1 when absent
Find(source, char, from) ==
    IF \E i \in from..(Len(source) - 1) : At(source, i) = char
    THEN CHOOSE i \in from..(Len(source) - 1) :
            /\ At(source, i) = char
            /\ \A j \in from..(i - 1) : At(source, j) # char
    ELSE -1

\* source.find("*/", from)
FindBlockEnd(source, from) ==
    IF \E i \in from..(Len(source) - 2) : At(source, i) = "*" /\ At(source, i + 1) = "/"
    THEN CHOOSE i \in from..(Len(source) - 2) :
            /\ At(source, i) = "*" /\ At(source, i + 1) = "/"
            /\ \A j \in from..(i - 1) : ~(At(source, j) = "*" /\ At(source, j + 1) = "/")
    ELSE -1

\* the grave accent U+0060, which opens a template literal; a string of this
\* module cannot hold the character itself, so it is written by name
Backtick == "grave"

SimpleEscapes == {"b", "f", "n", "r", "t", "v", "0", "\\", "'", "\"", Backtick, "$"}

\* chr(value) followed by the return of the offset: ValueError when the value
\* is no code point
chr_then(value, index) == IF value >= ChrLimit THEN Raises(index) ELSE Returns(index)

decode_js_escape(source, index) ==
    IF index >= Len(source) THEN Returns(index)
    ELSE
    LET escape_char == At(source, index) IN
    IF escape_char \in SimpleEscapes THEN Returns(index + 1)
    ELSE IF /\ escape_char = "x"
            /\ index + 2 < Len(source)
            /\ AllHex(source, index + 1, index + 3)
    THEN chr_then(HexInt(source, index + 1, index + 3, 0), index + 3)
    ELSE IF escape_char = "u" /\ index + 1 < Len(source) /\ At(source, index + 1) = "{"
    THEN LET close_pos == Find(source, "}", index + 2) IN
         IF /\ close_pos # -1
            /\ close_pos > index + 2
            /\ AllHex(source, index + 2, close_pos)
         THEN chr_then(HexInt(source, index + 2, close_pos, 0), close_pos + 1)
         ELSE Returns(index + 1)
    ELSE IF /\ escape_char = "u"
            /\ index + 4 < Len(source)
            /\ AllHex(source, index + 1, index + 5)
    THEN chr_then(HexInt(source, index + 1, index + 5, 0), index + 5)
    ELSE Returns(index + 1)

\* the loop of skip_string_literal from the offset index
RECURSIVE string_loop(_, _, _)
string_loop(source, quote, index) ==
    IF index >= Len(source) THEN Returns(Len(source))
    ELSE IF At(source, index) = "\\"
    THEN LET e == decode_js_escape(source, index + 1)
         IN IF e.raised THEN e ELSE string_loop(source, quote, e.index)
    ELSE IF At(source, index) = quote THEN Returns(index + 1)
    ELSE string_loop(source, quote, index + 1)

skip_string_literal(source, start) == string_loop(source, At(source, start), start + 1)

skip_line_comment(source, start) ==
    LET newline_pos == Find(source, "\n", start)
    IN Returns(IF newline_pos = -1 THEN Len(source) ELSE newline_pos + 1)

skip_block_comment(source, start) ==
    LET comment_end == FindBlockEnd(source, start + 2)
    IN Returns(IF comment_end = -1 THEN Len(source) ELSE comment_end + 2)

RECURSIVE find_previous_significant_char(_, _)
find_previous_significant_char(source, start) ==
    IF start - 1 < 0 THEN ""
    ELSE IF IsSpace(At(source, start - 1))
    THEN find_previous_significant_char(source, start - 1)
    ELSE At(source, start - 1)

RegexPrefixChars ==
    {"(", "{", "[", ",", ":", ";", "=", "!", "?", "&", "|", "^", "~", "<", ">", "+", "-",
     "*", "%"}

\* a definition that takes every slash for the start of a regex literal
can_start_regex_literal_anywhere(source, start) == TRUE

can_start_regex_literal(source, start) ==
    LET previous_char == find_previous_significant_char(source, start)
    IN previous_char = "" \/ previous_char \in RegexPrefixChars

\* the flags after the closing slash
RECURSIVE regex_flags(_, _)
regex_flags(source, index) ==
    IF index < Len(source) /\ IsAlpha(At(source, index))
    THEN regex_flags(source, index + 1)
    ELSE index

\* the loop of skip_regex_literal from the offset index
RECURSIVE regex_loop(_, _, _, _)
regex_loop(source, start, index, in_char_class) ==
    IF index >= Len(source) THEN Returns(Len(source))
    ELSE
    LET char == At(source, index) IN
    IF char = "\\" THEN regex_loop(source, start, index + 2, in_char_class)
    ELSE IF char = "[" /\ ~in_char_class THEN regex_loop(source, start, index + 1, TRUE)
    ELSE IF char = "]" /\ in_char_class THEN regex_loop(source, start, index + 1, FALSE)
    ELSE IF char = "/" /\ ~in_char_class THEN Returns(regex_flags(source, index + 1))
    ELSE IF char \in {"\n", "\r"} THEN Returns(start + 1)
    ELSE regex_loop(source, start, index + 1, in_char_class)

skip_regex_literal(source, start) == regex_loop(source, start, start + 1, FALSE)

\* consume_template_literal_with_interpolations from the offset index, and
\* consume_js_expression from the offset index at the brace depth given;
\* the template result carries has_interpolation and complete as well
RECURSIVE template_loop(_, _, _)
RECURSIVE consume_js_expression(_, _, _)
template_loop(source, index, has_interpolation) ==
    IF index >= Len(source)
    THEN [raised |-> FALSE, index |-> Len(source),
          has_interpolation |-> has_interpolation, complete |-> FALSE]
    ELSE
    LET char == At(source, index)
        next_char == IF index + 1 < Len(source) THEN At(source, index + 1) ELSE ""
    IN
    IF char = "\\"
    THEN LET e == decode_js_escape(source, index + 1)
         IN IF e.raised
            THEN [raised |-> TRUE, index |-> e.index,
                  has_interpolation |-> has_interpolation, complete |-> FALSE]
            ELSE template_loop(source, e.index, has_interpolation)
    ELSE IF char = Backtick
    THEN [raised |-> FALSE, index |-> index + 1,
          has_interpolation |-> has_interpolation, complete |-> TRUE]
    ELSE IF char = "$" /\ next_char = "{"
    THEN LET x == consume_js_expression(source, index + 2, 1)
         IN IF x.raised
            THEN [raised |-> TRUE, index |-> x.index,
                  has_interpolation |-> TRUE, complete |-> FALSE]
            ELSE template_loop(source, x.index, TRUE)
    ELSE template_loop(source, index + 1, has_interpolation)

consume_js_expression(source, index, brace_depth) ==
    IF index >= Len(source) THEN Returns(Len(source))
    ELSE
    LET char == At(source, index)
        next_char == IF index + 1 < Len(source) THEN At(source, index + 1) ELSE ""
    IN
    IF char \in {"'", "\""}
    THEN LET r == string_loop(source, char, index + 1)
         IN IF r.raised THEN r ELSE consume_js_expression(source, r.index, brace_depth)
    ELSE IF char = Backtick
    THEN LET t == template_loop(source, index + 1, FALSE)
         IN IF t.raised THEN Raises(t.index)
            ELSE consume_js_expression(source, t.index, brace_depth)
    ELSE IF char = "/" /\ next_char = "/"
    THEN consume_js_expression(source, skip_line_comment(source, index).index, brace_depth)
    ELSE IF char = "/" /\ next_char = "*"
    THEN consume_js_expression(source, skip_block_comment(source, index).index, brace_depth)
    ELSE IF char = "/" /\ can_start_regex_literal(source, index)
    THEN consume_js_expression(source, skip_regex_literal(source, index).index, brace_depth)
    ELSE IF char = "{" THEN consume_js_expression(source, index + 1, brace_depth + 1)
    ELSE IF char = "}"
    THEN IF brace_depth - 1 = 0 THEN Returns(index + 1)
         ELSE consume_js_expression(source, index + 1, brace_depth - 1)
    ELSE consume_js_expression(source, index + 1, brace_depth)

consume_template_literal(source, start) == template_loop(source, start + 1, FALSE)

skip_template_literal(source, start) ==
    LET t == consume_template_literal(source, start)
    IN [raised |-> t.raised, index |-> t.index]

\* ------------------------------------------------------------------------
\* The corpus walker: extraction of one file and the merge into the corpus
\* ------------------------------------------------------------------------
\* a definition that lets every occurrence overwrite the stored value
RECURSIVE merge_overwriting(_, _)
merge_overwriting(target, source) ==
    IF source = <<>> THEN target
    ELSE merge_overwriting(
            IF Head(source)[1] = "" THEN target
            ELSE Put(target, Head(source)[1], Head(source)[2]),
            Tail(source))

\* merge_i18n_entries(target, source): a new key is inserted, an empty stored
\* value is replaced by a non-empty one, anything else keeps the stored value
RECURSIVE merge_i18n_entries(_, _)
merge_i18n_entries(target, source) ==
    IF source = <<>> THEN target
    ELSE LET key == Head(source)[1]
             value == Head(source)[2]
             merged == IF key = "" THEN target
                       ELSE IF ~Has(target, key) THEN Put(target, key, value)
                       ELSE IF Get(target, key) = "" /\ value # "" THEN Put(target, key, value)
                       ELSE target
         IN merge_i18n_entries(merged, Tail(source))

\* extract_i18n_keys_from_html over the marker tokens of the document, each
\* given as <<key, value>>: every token with a key is stored by assignment
RECURSIVE extract_i18n_keys_from_html(_, _)
extract_i18n_keys_from_html(tokens, i18n) ==
    IF tokens = <<>> THEN i18n
    ELSE extract_i18n_keys_from_html(
            Tail(tokens),
            IF Head(tokens)[1] # "" THEN Put(i18n, Head(tokens)[1], Head(tokens)[2]) ELSE i18n)

\* extract_i18n_keys_from_scripts over the translate(text, key) calls of the
\* script, each given as <<key, text>>: every call with a key is stored by
\* assignment
RECURSIVE extract_i18n_keys_from_scripts(_, _)
extract_i18n_keys_from_scripts(calls, i18n) ==
    IF calls = <<>> THEN i18n
    ELSE extract_i18n_keys_from_scripts(
            Tail(calls),
            IF Head(calls)[1] # "" THEN Put(i18n, Head(calls)[1], Head(calls)[2]) ELSE i18n)

\* the branch of process_source_files on the extension of the file
extract_file(file) ==
    IF file.html
    THEN extract_i18n_keys_from_html(file.occurrences, <<>>)
    ELSE extract_i18n_keys_from_scripts(file.occurrences, <<>>)

\* a definition that records the last position of a key, not the first
RECURSIVE record_positions_last(_, _, _, _)
record_positions_last(pos, path, keys, key_index0) ==
    IF key_index0 >= Len(keys) THEN pos
    ELSE LET key == keys[key_index0 + 1] IN
         record_positions_last(
            IF key # ""
            THEN [k \in DOMAIN pos \cup {key} |->
                    IF k = key THEN <<path, key_index0>> ELSE pos[k]]
            ELSE pos,
            path, keys, key_index0 + 1)

\* key_source_positions after the loop over enumerate(extracted.keys())
RECURSIVE record_positions(_, _, _, _)
record_positions(pos, path, keys, key_index0) ==
    IF key_index0 >= Len(keys) THEN pos
    ELSE LET key == keys[key_index0 + 1] IN
         record_positions(
            IF key # "" /\ key \notin DOMAIN pos
            THEN [k \in DOMAIN pos \cup {key} |->
                    IF k = key THEN <<path, key_index0>> ELSE pos[k]]
            ELSE pos,
            path, keys, key_index0 + 1)

\* ------------------------------------------------------------------------
\* Markup: the tokens of the marker attribute of one element
\* ------------------------------------------------------------------------
\* source[from:to]
Slice(text, from, to) == SubSeq(text, from + 1, to)

\* "".join(chars)
RECURSIVE Join(_)
Join(chars) == IF chars = <<>> THEN "" ELSE Head(chars) \o Join(Tail(chars))

RECURSIVE lstrip(_)
lstrip(text) ==
    IF text # <<>> /\ IsSpace(Head(text)) THEN lstrip(Tail(text)) ELSE text

RECURSIVE rstrip(_)
rstrip(text) ==
    IF text # <<>> /\ IsSpace(text[Len(text)])
    THEN rstrip(SubSeq(text, 1, Len(text) - 1))
    ELSE text

\* str.strip()
strip(text) == rstrip(lstrip(text))

\* text.split(sep) for a separator of one character
RECURSIVE split(_, _)
split(text, sep) ==
    LET p == Find(text, sep, 0)
    IN IF p = -1 THEN <<text>>
       ELSE <<Slice(text, 0, p)>> \o split(Slice(text, p + 1, Len(text)), sep)

\* one token of the marker attribute of the element tag: the <<key, value>>
\* it assigns, <<"", "">> when the token assigns nothing
html_token(tag, token) ==
    IF token = <<>> THEN <<"", "">>
    ELSE IF Head(token) = "["
    THEN LET end_bracket_pos == Find(token, "]", 0) IN
         IF end_bracket_pos # -1
         THEN LET attribute_name == Slice(token, 1, end_bracket_pos)
                  key == Slice(token, end_bracket_pos + 1, Len(token))
                  value == strip(IF attribute_name \in DOMAIN tag.attrs
                                 THEN tag.attrs[attribute_name]
                                 ELSE <<>>)
              IN <<Join(key), Join(value)>>
         ELSE <<"", "">>
    ELSE <<Join(token), Join(strip(tag.text))>>

\* the tokens of the marker attribute of the element, in order, each with the
\* key and the value it assigns
html_tag_tokens(tag) ==
    LET i18n_values == split(tag.data_i18n, ";")
    IN [n \in 1..Len(i18n_values) |-> html_token(tag, i18n_values[n])]

\* ------------------------------------------------------------------------
\* Static JavaScript values: string literals and template literals
\* A value is [raised, none, text]: the call raised, returned None, or
\* returned the text
\* ------------------------------------------------------------------------
is_identifier_char(char) ==
    char # "" /\ (char \in Letters \/ char \in Digits \/ char \in {"_", "$"})

NoneValue == [raised |-> FALSE, none |-> TRUE, text |-> <<>>]

RaisedValue == [raised |-> TRUE, none |-> TRUE, text |-> <<>>]

TextValue(text) == [raised |-> FALSE, none |-> FALSE, text |-> text]

\* chr(value) for the code points the hex escapes of the modelled texts name;
\* the other code points share one atom
Chr(value) ==
    CASE value = 48 -> "0"
      [] value = 49 -> "1"
      [] value = 65 -> "A"
      [] OTHER -> "chr"

\* the character decode_js_escape returns with the offset; the control
\* characters no string of the module can hold are atoms
decoded_js_escape(source, index) ==
    IF index >= Len(source) THEN "\\"
    ELSE
    LET escape_char == At(source, index) IN
    IF escape_char \in SimpleEscapes
    THEN CASE escape_char = "n" -> "\n"
           [] escape_char = "r" -> "\r"
           [] escape_char = "t" -> "\t"
           [] escape_char = "f" -> "\f"
           [] escape_char = "b" -> "BS"
           [] escape_char = "v" -> "VT"
           [] escape_char = "0" -> "NUL"
           [] OTHER -> escape_char
    ELSE IF /\ escape_char = "x"
            /\ index + 2 < Len(source)
            /\ AllHex(source, index + 1, index + 3)
    THEN Chr(HexInt(source, index + 1, index + 3, 0))
    ELSE IF escape_char = "u" /\ index + 1 < Len(source) /\ At(source, index + 1) = "{"
    THEN LET close_pos == Find(source, "}", index + 2) IN
         IF /\ close_pos # -1
            /\ close_pos > index + 2
            /\ AllHex(source, index + 2, close_pos)
         THEN Chr(HexInt(source, index + 2, close_pos, 0))
         ELSE escape_char
    ELSE IF /\ escape_char = "u"
            /\ index + 4 < Len(source)
            /\ AllHex(source, index + 1, index + 5)
    THEN Chr(HexInt(source, index + 1, index + 5, 0))
    ELSE escape_char

\* the loop of parse_js_string_literal from the offset index
RECURSIVE string_literal_loop(_, _, _, _)
string_literal_loop(stripped, quote, index, decoded_chars) ==
    IF index >= Len(stripped) THEN NoneValue
    ELSE
    LET char == At(stripped, index) IN
    IF char = "\\"
    THEN LET e == decode_js_escape(stripped, index + 1)
         IN IF e.raised THEN RaisedValue
            ELSE string_literal_loop(stripped, quote, e.index,
                    Append(decoded_chars, decoded_js_escape(stripped, index + 1)))
    ELSE IF char = quote
    THEN IF strip(Slice(stripped, index + 1, Len(stripped))) # <<>>
         THEN NoneValue
         ELSE TextValue(decoded_chars)
    ELSE string_literal_loop(stripped, quote, index + 1, Append(decoded_chars, char))

parse_js_string_literal(value) ==
    LET stripped == strip(value)
    IN IF Len(stripped) < 2 \/ Head(stripped) \notin {"'", "\""}
       THEN NoneValue
       ELSE string_literal_loop(stripped, Head(stripped), 1, <<>>)

\* str(n) for a number below 100
DecimalChars(n) ==
    LET digit(d) == <<"0", "1", "2", "3", "4", "5", "6", "7", "8", "9">>[d + 1]
    IN IF n < 10 THEN <<digit(n)>> ELSE <<digit(n \div 10), digit(n % 10)>>

\* the loop of consume_template_literal_with_interpolations from the offset
\* index; the result is [raised, index, text, has_interpolation, complete,
\* interpolation_ranges]
RECURSIVE template_text_loop(_, _, _, _, _, _, _)
template_text_loop(source, index, replace_interpolations, text_buffer, placeholder_index, has_interpolation, interpolation_ranges) ==
    LET result(raised, at, complete) ==
            [raised |-> raised, index |-> at, text |-> text_buffer,
             has_interpolation |-> has_interpolation, complete |-> complete,
             interpolation_ranges |-> interpolation_ranges]
    IN
    IF index >= Len(source) THEN result(FALSE, Len(source), FALSE)
    ELSE
    LET char == At(source, index)
        next_char == IF index + 1 < Len(source) THEN At(source, index + 1) ELSE ""
    IN
    IF char = "\\"
    THEN LET escaped(e) ==
                IF e.raised THEN result(TRUE, e.index, FALSE)
                ELSE template_text_loop(source, e.index, replace_interpolations,
                        Append(text_buffer, decoded_js_escape(source, index + 1)),
                        placeholder_index, has_interpolation, interpolation_ranges)
         IN escaped(decode_js_escape(source, index + 1))
    ELSE IF char = Backtick THEN result(FALSE, index + 1, TRUE)
    ELSE IF char = "$" /\ next_char = "{"
    THEN LET expression_start == index + 2
             interpolated(x, expression_end) ==
                IF x.raised
                THEN [result(TRUE, x.index, FALSE) EXCEPT !.has_interpolation = TRUE]
                ELSE template_text_loop(source, expression_end, replace_interpolations,
                        IF replace_interpolations
                        THEN text_buffer \o <<"$", "{">> \o DecimalChars(placeholder_index)
                                \o <<"}">>
                        ELSE text_buffer,
                        IF replace_interpolations THEN placeholder_index + 1
                        ELSE placeholder_index,
                        TRUE,
                        IF expression_end - 1 > expression_start
                        THEN Append(interpolation_ranges,
                                    <<expression_start, expression_end - 1>>)
                        ELSE interpolation_ranges)
             consumed(x) == interpolated(x, x.index)
         IN consumed(consume_js_expression(source, expression_start, 1))
    ELSE template_text_loop(source, index + 1, replace_interpolations,
            Append(text_buffer, char), placeholder_index, has_interpolation,
            interpolation_ranges)

consume_template_literal_with_interpolations(source, start_at, replace_interpolations) ==
    template_text_loop(source, start_at + 1, replace_interpolations, <<>>, 0, FALSE, <<>>)

\* a definition that takes the text of a template literal for its value
\* whether or not the literal holds an interpolation
parse_static_js_value_interpolated(value) ==
    LET stripped == strip(value)
        template_value(t) ==
            IF t.raised THEN RaisedValue
            ELSE IF ~t.complete \/ t.index # Len(stripped)
            THEN NoneValue
            ELSE TextValue(t.text)
        static_value(string_value) ==
            IF string_value.raised \/ ~string_value.none THEN string_value
            ELSE IF stripped = <<>> \/ Head(stripped) # Backtick THEN NoneValue
            ELSE template_value(
                    consume_template_literal_with_interpolations(stripped, 0, FALSE))
    IN static_value(parse_js_string_literal(value))

parse_static_js_value(value) ==
    LET stripped == strip(value)
        template_value(t) ==
            IF t.raised THEN RaisedValue
            ELSE IF ~t.complete \/ t.index # Len(stripped) \/ t.has_interpolation
            THEN NoneValue
            ELSE TextValue(t.text)
        static_value(string_value) ==
            IF string_value.raised \/ ~string_value.none THEN string_value
            ELSE IF stripped = <<>> \/ Head(stripped) # Backtick THEN NoneValue
            ELSE template_value(
                    consume_template_literal_with_interpolations(stripped, 0, FALSE))
    IN static_value(parse_js_string_literal(value))

\* ------------------------------------------------------------------------
\* Call arguments, assignments, the binding of t, noise keys
\* ------------------------------------------------------------------------
\* the loop of parse_js_call_arguments from the offset index; the result is
\* [raised, index, none, arguments], none when the call returns None
RECURSIVE call_arguments_loop(_, _, _, _, _, _, _)
call_arguments_loop(source, index, arg_start, paren_depth, brace_depth, bracket_depth, arguments) ==
    LET skip(r) ==
            IF r.raised
            THEN [raised |-> TRUE, index |-> r.index, none |-> TRUE, arguments |-> <<>>]
            ELSE call_arguments_loop(source, r.index, arg_start, paren_depth, brace_depth,
                                     bracket_depth, arguments)
    IN
    IF index >= Len(source)
    THEN [raised |-> FALSE, index |-> Len(source), none |-> TRUE, arguments |-> <<>>]
    ELSE
    LET char == At(source, index)
        next_char == IF index + 1 < Len(source) THEN At(source, index + 1) ELSE ""
    IN
    IF char \in {"'", "\""} THEN skip(skip_string_literal(source, index))
    ELSE IF char = Backtick THEN skip(skip_template_literal(source, index))
    ELSE IF char = "/" /\ next_char = "/" THEN skip(skip_line_comment(source, index))
    ELSE IF char = "/" /\ next_char = "*" THEN skip(skip_block_comment(source, index))
    ELSE IF char = "/" /\ can_start_regex_literal(source, index)
    THEN skip(skip_regex_literal(source, index))
    ELSE IF char = "("
    THEN call_arguments_loop(source, index + 1, arg_start, paren_depth + 1, brace_depth,
                             bracket_depth, arguments)
    ELSE IF char = ")"
    THEN IF paren_depth - 1 = 0
         THEN [raised |-> FALSE, index |-> index + 1, none |-> FALSE,
               arguments |-> Append(arguments, Slice(source, arg_start, index))]
         ELSE call_arguments_loop(source, index + 1, arg_start, paren_depth - 1,
                                  brace_depth, bracket_depth, arguments)
    ELSE IF char = "{"
    THEN call_arguments_loop(source, index + 1, arg_start, paren_depth, brace_depth + 1,
                             bracket_depth, arguments)
    ELSE IF char = "}"
    THEN call_arguments_loop(source, index + 1, arg_start, paren_depth,
                             IF brace_depth - 1 > 0 THEN brace_depth - 1 ELSE 0,
                             bracket_depth, arguments)
    ELSE IF char = "["
    THEN call_arguments_loop(source, index + 1, arg_start, paren_depth, brace_depth,
                             bracket_depth + 1, arguments)
    ELSE IF char = "]"
    THEN call_arguments_loop(source, index + 1, arg_start, paren_depth, brace_depth,
                             IF bracket_depth - 1 > 0 THEN bracket_depth - 1 ELSE 0,
                             arguments)
    ELSE IF char = "," /\ paren_depth = 1 /\ brace_depth = 0 /\ bracket_depth = 0
    THEN call_arguments_loop(source, index + 1, index + 1, paren_depth, brace_depth,
                             bracket_depth, Append(arguments, Slice(source, arg_start, index)))
    ELSE call_arguments_loop(source, index + 1, arg_start, paren_depth, brace_depth,
                             bracket_depth, arguments)

parse_js_call_arguments(source, open_paren_index) ==
    call_arguments_loop(source, open_paren_index + 1, open_paren_index + 1, 1, 0, 0, <<>>)

\* the loop of parse_js_assignment_expression from the offset index; the
\* result is [raised, index, text]
RECURSIVE assignment_loop(_, _, _, _, _, _)
assignment_loop(source, start_at, index, paren_depth, brace_depth, bracket_depth) ==
    LET skip(r) ==
            IF r.raised THEN [raised |-> TRUE, index |-> r.index, text |-> <<>>]
            ELSE assignment_loop(source, start_at, r.index, paren_depth, brace_depth,
                                 bracket_depth)
        floor(n) == IF n > 0 THEN n ELSE 0
    IN
    IF index >= Len(source)
    THEN [raised |-> FALSE, index |-> Len(source),
          text |-> Slice(source, start_at, Len(source))]
    ELSE
    LET char == At(source, index)
        next_char == IF index + 1 < Len(source) THEN At(source, index + 1) ELSE ""
    IN
    IF char \in {"'", "\""} THEN skip(skip_string_literal(source, index))
    ELSE IF char = Backtick THEN skip(skip_template_literal(source, index))
    ELSE IF char = "/" /\ next_char = "/" THEN skip(skip_line_comment(source, index))
    ELSE IF char = "/" /\ next_char = "*" THEN skip(skip_block_comment(source, index))
    ELSE IF char = "/" /\ can_start_regex_literal(source, index)
    THEN skip(skip_regex_literal(source, index))
    ELSE IF char = "("
    THEN assignment_loop(source, start_at, index + 1, paren_depth + 1, brace_depth,
                         bracket_depth)
    ELSE IF char = ")"
    THEN assignment_loop(source, start_at, index + 1, floor(paren_depth - 1), brace_depth,
                         bracket_depth)
    ELSE IF char = "{"
    THEN assignment_loop(source, start_at, index + 1, paren_depth, brace_depth + 1,
                         bracket_depth)
    ELSE IF char = "}"
    THEN assignment_loop(source, start_at, index + 1, paren_depth, floor(brace_depth - 1),
                         bracket_depth)
    ELSE IF char = "["
    THEN assignment_loop(source, start_at, index + 1, paren_depth, brace_depth,
                         bracket_depth + 1)
    ELSE IF char = "]"
    THEN assignment_loop(source, start_at, index + 1, paren_depth, brace_depth,
                         floor(bracket_depth - 1))
    ELSE IF char = ";" /\ paren_depth = 0 /\ brace_depth = 0 /\ bracket_depth = 0
    THEN [raised |-> FALSE, index |-> index + 1, text |-> Slice(source, start_at, index)]
    ELSE assignment_loop(source, start_at, index + 1, paren_depth, brace_depth,
                         bracket_depth)

parse_js_assignment_expression(source, start_at) ==
    assignment_loop(source, start_at, start_at, 0, 0, 0)

\* source.startswith(word, index)
startswith_at(source, word, index) ==
    /\ index + Len(word) <= Len(source)
    /\ SubSeq(source, index + 1, index + Len(word)) = word

\* word in source
Contains(source, word) ==
    \E i \in 0..(Len(source) - Len(word)) : startswith_at(source, word, i)

\* the first offset at or after index that holds no white space
RECURSIVE skip_whitespace(_, _)
skip_whitespace(source, index) ==
    IF index < Len(source) /\ IsSpace(At(source, index))
    THEN skip_whitespace(source, index + 1)
    ELSE index

\* \b of a regular expression between the offsets index - 1 and index, next
\* to a word character
word_boundary(source, index, before) ==
    LET at == IF before THEN index - 1 ELSE index
    IN at < 0 \/ at >= Len(source)
        \/ ~(At(source, at) \in Letters \cup Digits \cup {"_"})

kw_const == <<"c", "o", "n", "s", "t">>

kw_let == <<"l", "e", "t">>

kw_var == <<"v", "a", "r">>

kw_this_t == <<"t", "h", "i", "s", ".", "t">>

kw_translate == <<"t", "r", "a", "n", "s", "l", "a", "t", "e">>

kw_i18n_t == <<"i", "1", "8", "n", ".", "t">>

kw_window_t == <<"w", "i", "n", "d", "o", "w", ".", "t">>

\* \s*=\s*(?:translate|i18n\.t|window\.t)\b at the offset index
binds_translation(source, index) ==
    LET eq == skip_whitespace(source, index)
        target == skip_whitespace(source, eq + 1)
    IN /\ eq < Len(source)
       /\ At(source, eq) = "="
       /\ \E word \in {kw_translate, kw_i18n_t, kw_window_t} :
            /\ startswith_at(source, word, target)
            /\ word_boundary(source, target + Len(word), FALSE)

\* re.search of the binding patterns "const|let|var t = ..." and
\* "this.t = ..."; the patterns of an import and of a destructuring need an
\* "import" or a brace after the declaration word, which the modelled
\* scripts do not hold
has_translation_t_call_binding(script_content) ==
    \/ \E i \in 0..(Len(script_content) - 1) :
        \E word \in {kw_const, kw_let, kw_var} :
            /\ word_boundary(script_content, i, TRUE)
            /\ startswith_at(script_content, word, i)
            /\ LET name == skip_whitespace(script_content, i + Len(word))
               IN /\ name > i + Len(word)
                  /\ name < Len(script_content)
                  /\ At(script_content, name) = "t"
                  /\ binds_translation(script_content, name + 1)
    \/ \E i \in 0..(Len(script_content) - 1) :
            /\ word_boundary(script_content, i, TRUE)
            /\ startswith_at(script_content, kw_this_t, i)
            /\ binds_translation(script_content, i + Len(kw_this_t))

NoiseExtensions ==
    {<<"j", "s">>, <<"m", "j", "s">>, <<"c", "j", "s">>, <<"w", "a", "s", "m">>,
     <<"j", "s", "o", "n">>, <<"t", "s">>, <<"t", "s", "x">>}

\* is_noise_t_call_key; the modelled texts hold the letters of the
\* extensions in lower case only
is_noise_t_call_key(candidate_text) ==
    LET text == strip(candidate_text)
    IN \/ text = <<>>
       \/ \E p \in {<<".", "/">>, <<".", ".", "/">>, <<"/">>, <<"?">>} :
            startswith_at(text, p, 0)
       \/ Contains(text, <<"n", "o", "d", "e", "_", "m", "o", "d", "u", "l", "e", "s", "/">>)
       \/ Contains(text, <<"/", "s", "r", "c", "/">>)
       \/ Contains(text, <<"d", "i", "s", "t", "/">>)
       \/ Contains(text, <<"<">>) \/ Contains(text, <<">">>)
       \/ \E i \in 0..(Len(text) - 1) :
            \E ext \in NoiseExtensions :
                /\ At(text, i) = "."
                /\ startswith_at(text, ext, i + 1)
                /\ \/ i + 1 + Len(ext) = Len(text)
                   \/ At(text, i + 1 + Len(ext)) = "?"

\* ------------------------------------------------------------------------
\* The script extractor: extract_i18n_keys_from_scripts
\* The mapping holds keys and values as strings, "".join of their characters
\* ------------------------------------------------------------------------
kw_data_i18n == <<"d", "a", "t", "a", "-", "i", "1", "8", "n">>

kw_t == <<"t">>

kw_applyLocale == <<"a", "p", "p", "l", "y", "L", "o", "c", "a", "l", "e">>

kw_attr == <<"a", "t", "t", "r">>

kw_setAttribute == <<"s", "e", "t", "A", "t", "t", "r", "i", "b", "u", "t", "e">>

kw_dataset_i18n == <<"d", "a", "t", "a", "s", "e", "t", ".", "i", "1", "8", "n">>

\* extract_i18n_keys_from_data_i18n_value on the tokens from the n-th on
RECURSIVE data_i18n_tokens(_, _, _)
data_i18n_tokens(tokens, n, i18n) ==
    IF n > Len(tokens) THEN i18n
    ELSE
    LET token == tokens[n] IN
    IF token = <<>> THEN data_i18n_tokens(tokens, n + 1, i18n)
    ELSE IF Head(token) = "["
    THEN LET end_bracket_pos == Find(token, "]", 0)
             key == Slice(token, end_bracket_pos + 1, Len(token))
         IN data_i18n_tokens(tokens, n + 1,
                IF end_bracket_pos # -1 /\ key # <<>>
                THEN Put(i18n, Join(key), Join(key))
                ELSE i18n)
    ELSE data_i18n_tokens(tokens, n + 1, Put(i18n, Join(token), Join(token)))

extract_i18n_keys_from_data_i18n_value(data_i18n_value) ==
    data_i18n_tokens(split(data_i18n_value, ";"), 1, <<>>)

\* the matches of data-i18n\s*=\s*(["'])(.*?)\1 from the offset index on,
\* merged in order; the modelled texts spell the attribute in lower case
RECURSIVE markup_matches(_, _, _)
markup_matches(markup_text, index, i18n) ==
    IF index >= Len(markup_text) THEN i18n
    ELSE
    LET eq == skip_whitespace(markup_text, index + Len(kw_data_i18n))
        quote_pos == skip_whitespace(markup_text, eq + 1)
        close_pos == IF quote_pos < Len(markup_text)
                     THEN Find(markup_text, At(markup_text, quote_pos), quote_pos + 1)
                     ELSE -1
    IN IF /\ startswith_at(markup_text, kw_data_i18n, index)
          /\ eq < Len(markup_text)
          /\ At(markup_text, eq) = "="
          /\ quote_pos < Len(markup_text)
          /\ At(markup_text, quote_pos) \in {"'", "\""}
          /\ close_pos # -1
       THEN markup_matches(markup_text, close_pos + 1,
                merge_i18n_entries(i18n,
                    extract_i18n_keys_from_data_i18n_value(
                        Slice(markup_text, quote_pos + 1, close_pos))))
       ELSE markup_matches(markup_text, index + 1, i18n)

\* extract_i18n_keys_from_markup_text; the modelled texts hold no element, so
\* the parse of the text as a document yields no entry
extract_i18n_keys_from_markup_text(markup_text) ==
    IF markup_text = <<>> \/ ~Contains(markup_text, kw_data_i18n) THEN <<>>
    ELSE markup_matches(markup_text, 0, <<>>)

\* what one iteration of the scan does: [matched, raised, index, i18n, branch,
\* recursed]; recursed lists the interpolation texts the iteration descended
\* into
Stepped(branch, at, i18n) ==
    [matched |-> TRUE, raised |-> FALSE, index |-> at, i18n |-> i18n, branch |-> branch,
     recursed |-> <<>>]

StepRaised(branch, at, i18n) ==
    [matched |-> TRUE, raised |-> TRUE, index |-> at, i18n |-> i18n, branch |-> branch,
     recursed |-> <<>>]

NoMatch(at, i18n) ==
    [matched |-> FALSE, raised |-> FALSE, index |-> at, i18n |-> i18n, branch |-> "none",
     recursed |-> <<>>]

\* not is_identifier_char(previous_char)
free_before(script_content, index) ==
    index = 0 \/ ~is_identifier_char(At(script_content, index - 1))

\* after_index >= len(script_content) or not is_identifier_char(...)
free_after(script_content, after_index) ==
    after_index >= Len(script_content) \/ ~is_identifier_char(At(script_content, after_index))

\* whitespace_index holds an opening parenthesis
at_open_paren(script_content, whitespace_index) ==
    whitespace_index < Len(script_content) /\ At(script_content, whitespace_index) = "("

\* the branch on a t tag and on a call of t
t_branch(script_content, index, i18n, allow_t_function_call_extraction) ==
    LET whitespace_index == skip_whitespace(script_content, index + 1) IN
    IF ~(/\ startswith_at(script_content, kw_t, index)
         /\ free_before(script_content, index)
         /\ (index = 0 \/ At(script_content, index - 1) # ".")
         /\ free_after(script_content, index + 1))
    THEN NoMatch(index, i18n)
    ELSE IF /\ whitespace_index < Len(script_content)
            /\ At(script_content, whitespace_index) = Backtick
    THEN LET tagged(t) ==
                IF t.raised THEN StepRaised("t_tag", t.index, i18n)
                ELSE Stepped("t_tag", t.index,
                        IF t.complete /\ t.text # <<>>
                        THEN Put(i18n, Join(t.text), Join(t.text))
                        ELSE i18n)
         IN tagged(consume_template_literal_with_interpolations(
                        script_content, whitespace_index, TRUE))
    ELSE IF allow_t_function_call_extraction /\ at_open_paren(script_content, whitespace_index)
    THEN LET called(a, text_value) ==
                IF a.raised \/ text_value.raised THEN StepRaised("t_call", a.index, i18n)
                ELSE Stepped("t_call", a.index,
                        IF /\ ~text_value.none
                           /\ text_value.text # <<>>
                           /\ ~is_noise_t_call_key(text_value.text)
                        THEN Put(i18n, Join(text_value.text), Join(text_value.text))
                        ELSE i18n)
             parsed(a) ==
                called(a, IF a.none THEN NoneValue
                          ELSE parse_static_js_value(a.arguments[1]))
         IN parsed(parse_js_call_arguments(script_content, whitespace_index))
    ELSE NoMatch(index, i18n)

\* the branch on a call of translate
translate_branch(script_content, index, i18n) ==
    LET after_index == index + Len(kw_translate)
        whitespace_index == skip_whitespace(script_content, after_index)
    IN
    IF ~(/\ startswith_at(script_content, kw_translate, index)
         /\ free_before(script_content, index)
         /\ (index = 0 \/ At(script_content, index - 1) # ".")
         /\ free_after(script_content, after_index)
         /\ at_open_paren(script_content, whitespace_index))
    THEN NoMatch(index, i18n)
    ELSE
    LET keyed(a, text_value, key_value, final_key) ==
            IF a.raised \/ text_value.raised \/ key_value.raised
            THEN StepRaised("translate", a.index, i18n)
            ELSE Stepped("translate", a.index,
                    IF ~final_key.none /\ final_key.text # <<>>
                    THEN Put(i18n, Join(final_key.text),
                             IF ~text_value.none THEN Join(text_value.text)
                             ELSE Join(final_key.text))
                    ELSE i18n)
        called(a, text_value, key_value) ==
            keyed(a, text_value, key_value,
                  IF ~key_value.none /\ key_value.text # <<>> THEN key_value
                  ELSE text_value)
        parsed(a) ==
            called(a,
                   IF a.none THEN NoneValue ELSE parse_static_js_value(a.arguments[1]),
                   IF a.none \/ Len(a.arguments) <= 1 THEN NoneValue
                   ELSE parse_static_js_value(a.arguments[2]))
    IN parsed(parse_js_call_arguments(script_content, whitespace_index))

\* the branch on a call of applyLocale; the static markup of the modelled
\* texts holds no element, so its parse yields no entry
applyLocale_branch(script_content, index, i18n) ==
    LET after_index == index + Len(kw_applyLocale)
        whitespace_index == skip_whitespace(script_content, after_index)
    IN
    IF ~(/\ startswith_at(script_content, kw_applyLocale, index)
         /\ free_before(script_content, index)
         /\ free_after(script_content, after_index)
         /\ at_open_paren(script_content, whitespace_index))
    THEN NoMatch(index, i18n)
    ELSE
    LET called(a, html_value) ==
            IF a.raised \/ html_value.raised THEN StepRaised("applyLocale", a.index, i18n)
            ELSE IF ~html_value.none /\ Contains(html_value.text, kw_data_i18n)
            THEN Stepped("applyLocale", a.index, i18n)
            ELSE NoMatch(index, i18n)
        parsed(a) ==
            called(a, IF a.none THEN NoneValue ELSE parse_static_js_value(a.arguments[1]))
    IN parsed(parse_js_call_arguments(script_content, whitespace_index))

\* the branch on a call of attr or of setAttribute
attribute_branch(script_content, index, i18n, word, branch) ==
    LET after_index == index + Len(word)
        whitespace_index == skip_whitespace(script_content, after_index)
    IN
    IF ~(/\ startswith_at(script_content, word, index)
         /\ free_before(script_content, index)
         /\ free_after(script_content, after_index)
         /\ at_open_paren(script_content, whitespace_index))
    THEN NoMatch(index, i18n)
    ELSE
    LET called(a, target_attribute, i18n_value) ==
            IF a.raised \/ target_attribute.raised \/ i18n_value.raised
            THEN StepRaised(branch, a.index, i18n)
            ELSE IF /\ ~target_attribute.none
                    /\ target_attribute.text = kw_data_i18n
                    /\ ~i18n_value.none
                    /\ i18n_value.text # <<>>
            THEN Stepped(branch, a.index,
                    merge_i18n_entries(i18n,
                        extract_i18n_keys_from_data_i18n_value(i18n_value.text)))
            ELSE NoMatch(index, i18n)
        several(a) == ~a.none /\ Len(a.arguments) > 1
        parsed(a) ==
            called(a,
                   IF several(a) THEN parse_static_js_value(a.arguments[1]) ELSE NoneValue,
                   IF several(a) THEN parse_static_js_value(a.arguments[2]) ELSE NoneValue)
    IN parsed(parse_js_call_arguments(script_content, whitespace_index))

\* the branch on an assignment to dataset.i18n
dataset_branch(script_content, index, i18n) ==
    LET after_index == index + Len(kw_dataset_i18n)
        whitespace_index == skip_whitespace(script_content, after_index)
        expression_start == skip_whitespace(script_content, whitespace_index + 1)
    IN
    IF ~(/\ startswith_at(script_content, kw_dataset_i18n, index)
         /\ free_before(script_content, index)
         /\ whitespace_index < Len(script_content)
         /\ At(script_content, whitespace_index) = "=")
    THEN NoMatch(index, i18n)
    ELSE
    LET assigned(e, i18n_value) ==
            IF e.raised \/ i18n_value.raised THEN StepRaised("dataset", e.index, i18n)
            ELSE IF ~i18n_value.none /\ i18n_value.text # <<>>
            THEN Stepped("dataset", e.index,
                    merge_i18n_entries(i18n,
                        extract_i18n_keys_from_data_i18n_value(i18n_value.text)))
            ELSE NoMatch(index, i18n)
        parsed(e) ==
            assigned(e, IF e.raised THEN RaisedValue ELSE parse_static_js_value(e.text))
    IN parsed(parse_js_assignment_expression(script_content, expression_start))

\* a definition that leaves the cursor at the start of the text
primitive_step_stalled(branch, r, i18n) == Stepped(branch, 0, i18n)

\* a scanner primitive as an iteration of the scan
primitive_step(branch, r, i18n) ==
    IF r.raised THEN StepRaised(branch, r.index, i18n) ELSE Stepped(branch, r.index, i18n)

\* the first branch that matches, in the order of the list
RECURSIVE first_match(_)
first_match(branches) ==
    IF Len(branches) = 1 \/ Head(branches).matched THEN Head(branches)
    ELSE first_match(Tail(branches))

\* one iteration of the loop of extract_i18n_keys_from_scripts at the offset
\* index, and the whole call on a text: [raised, i18n]
RECURSIVE script_step(_, _, _, _)
RECURSIVE scripts_loop(_, _, _, _)
RECURSIVE merge_interpolations(_, _, _)

\* the loop over interpolation_ranges, on the texts of the interpolations
merge_interpolations(contents, n, i18n) ==
    IF n > Len(contents) THEN [raised |-> FALSE, i18n |-> i18n]
    ELSE LET merge(inner) ==
                IF inner.raised THEN [raised |-> TRUE, i18n |-> i18n]
                ELSE merge_interpolations(contents, n + 1,
                                          merge_i18n_entries(i18n, inner.i18n))
         IN merge(scripts_loop(contents[n], 0, <<>>,
                               has_translation_t_call_binding(contents[n])))

script_step(script_content, index, i18n, allow_t_function_call_extraction) ==
    LET char == At(script_content, index)
        next_char == IF index + 1 < Len(script_content)
                     THEN At(script_content, index + 1) ELSE ""
    IN
    IF char = "/" /\ next_char = "/"
    THEN primitive_step("line_comment", skip_line_comment(script_content, index), i18n)
    ELSE IF char = "/" /\ next_char = "*"
    THEN primitive_step("block_comment", skip_block_comment(script_content, index), i18n)
    ELSE IF char \in {"'", "\""}
    THEN LET literal(r, string_value) ==
                IF r.raised \/ string_value.raised
                THEN StepRaised("string", r.index, i18n)
                ELSE Stepped("string", r.index,
                        IF /\ ~string_value.none
                           /\ string_value.text # <<>>
                           /\ Contains(string_value.text, kw_data_i18n)
                        THEN merge_i18n_entries(i18n,
                                extract_i18n_keys_from_markup_text(string_value.text))
                        ELSE i18n)
             skipped(r) ==
                literal(r, IF r.raised THEN RaisedValue
                           ELSE parse_js_string_literal(
                                    Slice(script_content, index, r.index)))
         IN skipped(skip_string_literal(script_content, index))
    ELSE IF char = Backtick
    THEN LET with_markup(t) ==
                IF t.complete /\ Contains(t.text, kw_data_i18n)
                THEN merge_i18n_entries(i18n, extract_i18n_keys_from_markup_text(t.text))
                ELSE i18n
             interpolations(t) ==
                [n \in 1..Len(t.interpolation_ranges) |->
                    Slice(script_content, t.interpolation_ranges[n][1],
                          t.interpolation_ranges[n][2])]
             descended(t, contents, merged) ==
                IF t.raised THEN StepRaised("template", t.index, i18n)
                ELSE [matched |-> TRUE, raised |-> merged.raised, index |-> t.index,
                      i18n |-> merged.i18n, branch |-> "template", recursed |-> contents]
             scanned(t, contents) ==
                descended(t, contents, merge_interpolations(contents, 1, with_markup(t)))
             consumed(t) == scanned(t, interpolations(t))
         IN consumed(consume_template_literal_with_interpolations(script_content, index,
                                                                  TRUE))
    ELSE IF char = "/" /\ can_start_regex_literal(script_content, index)
    THEN primitive_step("regex", skip_regex_literal(script_content, index), i18n)
    ELSE first_match(
            <<t_branch(script_content, index, i18n, allow_t_function_call_extraction),
              translate_branch(script_content, index, i18n),
              applyLocale_branch(script_content, index, i18n),
              attribute_branch(script_content, index, i18n, kw_attr, "attr"),
              attribute_branch(script_content, index, i18n, kw_setAttribute,
                               "setAttribute"),
              dataset_branch(script_content, index, i18n),
              Stepped("advance", index + 1, i18n)>>)

scripts_loop(script_content, index, i18n, allow_t_function_call_extraction) ==
    IF index >= Len(script_content) THEN [raised |-> FALSE, i18n |-> i18n]
    ELSE LET iteration(r) ==
                IF r.raised THEN [raised |-> TRUE, i18n |-> i18n]
                ELSE scripts_loop(script_content, r.index, r.i18n,
                                  allow_t_function_call_extraction)
         IN iteration(script_step(script_content, index, i18n,
                                  allow_t_function_call_extraction))

\* extract_i18n_keys_from_scripts on the text of a script
extract_i18n_keys_from_script_text(script_content) ==
    scripts_loop(script_content, 0, <<>>, has_translation_t_call_binding(script_content))

\* ------------------------------------------------------------------------
\* State
\* ------------------------------------------------------------------------
VARIABLES
    i18n_dict,              \* corpus mapping: OrderedDict key -> default value
    key_source_positions,   \* position index: key -> <<path, ordinal>>
    flags,                  \* policy: sort_keys, auto_remove, auto_add, auto_translate
    locale_files,           \* the catalogs the run processes, in listing order
    disk,                   \* catalog file -> [ok, data]: parsable? and its JSON object
    supported,              \* languages the translation capability supports
    failing,                \* texts the translation capability fails on
    pc,                     \* position of the run
    todo,                   \* catalogs still to process
    json_file,              \* catalog update_json works on
    data,                   \* update_json: the loaded catalog
    language,               \* update_json: target language, a sequence of subtags
    counters,               \* update_json: nf, add, skip, extra, remove, err
    key_index,              \* update_json: position of the loop over i18n_dict.keys()
    extra_keys,             \* update_json: list(data.keys()) of the extra-key loop
    extra_index,            \* update_json: position of the extra-key loop
    run_totals,             \* aggregate counters of the run
    last,                   \* what the last iteration of the corpus loop did
    written,                \* catalogs written by the current run, in order
    runs,                   \* number of the current run of the tool
    first_disk,             \* the catalogs as the first run left them
    source_files,           \* process_source_files: the files in visiting order
    file_index,             \* process_source_files: position of the loop over the files
    extracted_log,          \* what each visited file yielded, in visiting order
    source,                 \* the script text a scanner primitive is called on
    start_index,            \* the offset the primitive is called at
    scan_op,                \* the primitive that has run, "none" before the call
    scan_result,            \* what the call did: [raised, index]
    html_tag,               \* markup: the element extract_i18n_keys_from_html reads
    html_extracted,         \* markup: the mapping extract_i18n_keys_from_html returns
    tree,                   \* listing: the names of a chain of nested directories
    walk_stack,             \* listing: the directories os.walk has still to visit
    collected,              \* listing: source_files of collect_source_files
    script_content,         \* script: the text extract_i18n_keys_from_scripts scans
    script_case,            \* script: how the text was composed
    index,                  \* script: the cursor of the scan
    script_i18n,            \* script: the mapping the scan has built
    last_step               \* script: what the last iteration did

vars ==
    <<i18n_dict, key_source_positions, flags, locale_files, disk, supported, failing,
      pc, todo, json_file, data, language, counters, key_index, extra_keys,
      extra_index, run_totals, last, written, runs, first_disk,
      source_files, file_index, extracted_log,
      source, start_index, scan_op, scan_result,
      html_tag, html_extracted, tree, walk_stack, collected,
      script_content, script_case, index, script_i18n, last_step>>

scanner == <<source, start_index, scan_op, scan_result>>

\* the state of the extractors called on one text
extraction ==
    <<html_tag, html_extracted, tree, walk_stack, collected,
      script_content, script_case, index, script_i18n, last_step>>

script == <<script_content, script_case, index, script_i18n, last_step>>

markup == <<html_tag, html_extracted>>

listing == <<tree, walk_stack, collected>>

\* what a reconciliation reads and never changes: the result of the walk and
\* of its scans, the policy, the listing of the catalogs, the translation
\* capability
inputs ==
    <<i18n_dict, key_source_positions, flags, locale_files, supported, failing,
      source_files, file_index, extracted_log, scanner, extraction>>

\* no extractor is running
NoTag == [data_i18n |-> <<>>, attrs |-> <<>>, text |-> <<>>]

\* no element is read
MarkupIdle ==
    /\ html_tag = NoTag
    /\ html_extracted = <<>>

\* no directory is listed
ListingIdle ==
    /\ tree = <<>>
    /\ walk_stack = <<>>
    /\ collected = <<>>

NoStep == [branch |-> "none", from |-> 0, recursed |-> <<>>]

NoCase ==
    [family |-> "none", text |-> <<>>, at |-> 0, reach |-> 0, key |-> "",
     literal |-> <<>>]

\* no script is scanned
ScriptIdle ==
    /\ script_content = <<>>
    /\ script_case = NoCase
    /\ index = 0
    /\ script_i18n = <<>>
    /\ last_step = NoStep

ExtractionIdle ==
    /\ MarkupIdle
    /\ ListingIdle
    /\ ScriptIdle

\* no scanner primitive is running
ScannerIdle ==
    /\ source = <<>>
    /\ start_index = 0
    /\ scan_op = "none"
    /\ scan_result = Returns(0)

\* ------------------------------------------------------------------------
\* The translation capability GoogleTranslator(source="en", target).translate
\* ------------------------------------------------------------------------
\* str.upper of a language subtag
Upper == [s \in {"zh", "cn", "CN", "fr"} |->
            CASE s = "zh" -> "ZH" [] s = "cn" -> "CN" [] s = "CN" -> "CN" [] s = "fr" -> "FR"]

\* "-".join(subtags): the language code as the capability receives it
LanguageCode(lang) ==
    IF Len(lang) = 1 THEN lang[1] ELSE lang[1] \o "-" \o lang[2]

\* outcome of one call: the target language is checked first, then the text
TranslateOutcome(lang, text) ==
    IF lang \notin supported THEN "unsupported"
    ELSE IF text \in failing THEN "other"
    ELSE "ok"

\* the translated text: a deterministic function of target language and text
Translation(lang, text) == LanguageCode(lang) \o ":" \o text

\* ------------------------------------------------------------------------
\* update_json, the try block of one missing key with auto_translate
\* ------------------------------------------------------------------------
\* language.split("-")[0] + "-" + language.split("-")[1].upper()
Regionalize(lang) == <<lang[1], Upper[lang[2]]>>

\* language.split("-")[0]
BaseLanguage(lang) == <<lang[1]>>

\* status: "added" (value set), "swallowed" (exception caught and dropped),
\* "index_error" (split("-")[1] on a code without region), "exhausted" (third
\* call failed); the last two leave the try block of the loop as an exception
translate_missing(lang, text) ==
    LET o1 == TranslateOutcome(lang, text) IN
    IF o1 = "ok"
    THEN [status |-> "added", language |-> lang, value |-> Translation(lang, text),
          calls |-> <<<<lang, o1>>>>]
    ELSE IF o1 = "other"
    THEN [status |-> "swallowed", language |-> lang, value |-> "",
          calls |-> <<<<lang, o1>>>>]
    ELSE IF Len(lang) < 2
    THEN [status |-> "index_error", language |-> lang, value |-> "",
          calls |-> <<<<lang, o1>>>>]
    ELSE
    LET l1 == Regionalize(lang)
        o2 == TranslateOutcome(l1, text) IN
    IF o2 = "ok"
    THEN [status |-> "added", language |-> l1, value |-> Translation(l1, text),
          calls |-> <<<<lang, o1>>, <<l1, o2>>>>]
    ELSE IF o2 = "other"
    THEN [status |-> "swallowed", language |-> l1, value |-> "",
          calls |-> <<<<lang, o1>>, <<l1, o2>>>>]
    ELSE
    LET l2 == BaseLanguage(l1)
        o3 == TranslateOutcome(l2, text) IN
    IF o3 = "ok"
    THEN [status |-> "added", language |-> l2, value |-> Translation(l2, text),
          calls |-> <<<<lang, o1>>, <<l1, o2>>, <<l2, o3>>>>]
    ELSE [status |-> "exhausted", language |-> l2, value |-> "",
          calls |-> <<<<lang, o1>>, <<l1, o2>>, <<l2, o3>>>>]

\* ------------------------------------------------------------------------
\* update_json, one iteration of "for key in i18n_dict.keys()"
\* ------------------------------------------------------------------------
Bump(c, name) == [c EXCEPT ![name] = @ + 1]

ZeroCounters == [nf |-> 0, add |-> 0, skip |-> 0, extra |-> 0, remove |-> 0, err |-> 0]

\* a lookup that takes an empty catalog value for a missing key
NotFoundOrEmpty(d, key) == ~Has(d, key) \/ Get(d, key) = ""

\* "key not in data"
NotFound(d, key) == ~Has(d, key)

\* a definition that counts every missing key as skipped, an added one too
reconcile_key_skip_counted(d, lang, c, key, value, f) ==
    IF ~NotFound(d, key)
    THEN [data |-> d, language |-> lang, counters |-> c, status |-> "present",
          calls |-> <<>>, raised |-> FALSE]
    ELSE IF f.auto_add /\ value # "" /\ ~f.auto_translate
    THEN [data |-> Put(d, key, value), language |-> lang,
          counters |-> Bump(Bump(Bump(c, "nf"), "skip"), "add"),
          status |-> "added", calls |-> <<>>, raised |-> FALSE]
    ELSE [data |-> d, language |-> lang, counters |-> Bump(Bump(c, "nf"), "skip"),
          status |-> "skipped", calls |-> <<>>, raised |-> FALSE]

\* raised: the iteration left the loop through "except Exception as e"
reconcile_key(d, lang, c, key, value, f) ==
    IF ~NotFound(d, key)
    THEN [data |-> d, language |-> lang, counters |-> c, status |-> "present",
          calls |-> <<>>, raised |-> FALSE]
    ELSE
    LET c1 == Bump(c, "nf")
        c2 == IF value = "" THEN Bump(c1, "skip") ELSE c1 IN
    IF ~(f.auto_add /\ value # "")
    THEN [data |-> d, language |-> lang, counters |-> c2,
          status |-> IF value = "" THEN "skipped" ELSE "reported",
          calls |-> <<>>, raised |-> FALSE]
    ELSE IF ~f.auto_translate
    THEN [data |-> Put(d, key, value), language |-> lang, counters |-> Bump(c2, "add"),
          status |-> "added", calls |-> <<>>, raised |-> FALSE]
    ELSE
    LET t == translate_missing(lang, value) IN
    IF t.status = "added"
    THEN [data |-> Put(d, key, t.value), language |-> t.language,
          counters |-> Bump(c2, "add"), status |-> "added", calls |-> t.calls,
          raised |-> FALSE]
    ELSE IF t.status = "swallowed"
    THEN [data |-> d, language |-> t.language, counters |-> c2, status |-> "swallowed",
          calls |-> t.calls, raised |-> FALSE]
    ELSE [data |-> d, language |-> t.language, counters |-> Bump(c2, "err"),
          status |-> t.status, calls |-> t.calls, raised |-> TRUE]

\* ------------------------------------------------------------------------
\* update_json, the sort of the catalog keys
\* ------------------------------------------------------------------------
\* key_source_positions.get(key, ("", sys.maxsize))
PositionOf(pos, key) == IF key \in DOMAIN pos THEN pos[key] ELSE <<"", sys_maxsize>>

\* a sort key that ignores the recorded position
sort_tuple_alphabetical(key, corpus, pos) ==
    <<IF Has(corpus, key) THEN 0 ELSE 1, <<>>, 0, casefold(CodePoints[key]), CodePoints[key]>>

\* the tuple the lambda of sorted() returns, strings as code points
sort_tuple(key, corpus, pos) ==
    <<IF Has(corpus, key) THEN 0 ELSE 1,
      CodePoints[PositionOf(pos, key)[1]],
      PositionOf(pos, key)[2],
      casefold(CodePoints[key]),
      CodePoints[key]>>

\* tuple.__lt__ on two such tuples
TupleLess(t, u) ==
    \/ t[1] < u[1]
    \/ t[1] = u[1] /\ StrLess(t[2], u[2])
    \/ t[1] = u[1] /\ t[2] = u[2] /\ t[3] < u[3]
    \/ t[1] = u[1] /\ t[2] = u[2] /\ t[3] = u[3] /\ StrLess(t[4], u[4])
    \/ t[1] = u[1] /\ t[2] = u[2] /\ t[3] = u[3] /\ t[4] = u[4] /\ StrLess(t[5], u[5])

\* sorted(keys, key=...): stable, an element goes after the elements not greater
RECURSIVE sorted_keys(_, _, _)
sorted_keys(keys, corpus, pos) ==
    IF keys = <<>> THEN <<>>
    ELSE
    LET n == Len(keys)
        x == keys[n]
        init == sorted_keys(SubSeq(keys, 1, n - 1), corpus, pos)
        p == Cardinality({i \in 1..Len(init) :
                ~TupleLess(sort_tuple(x, corpus, pos), sort_tuple(init[i], corpus, pos))})
    IN SubSeq(init, 1, p) \o <<x>> \o SubSeq(init, p + 1, Len(init))

\* OrderedDict((key, data[key]) for key in sorted_keys) when sort_keys is set
sort_catalog(d, corpus, pos, f) ==
    IF f.sort_keys
    THEN LET sk == sorted_keys(DictKeys(d), corpus, pos)
         IN [i \in 1..Len(sk) |-> <<sk[i], Get(d, sk[i])>>]
    ELSE d

\* ------------------------------------------------------------------------
\* update_json, one iteration of "for key in list(data.keys())"
\* ------------------------------------------------------------------------
extra_key(d, c, key, corpus, f) ==
    IF Has(corpus, key)
    THEN [data |-> d, counters |-> c]
    ELSE IF f.auto_remove
    THEN [data |-> Del(d, key), counters |-> Bump(Bump(c, "extra"), "remove")]
    ELSE [data |-> d, counters |-> Bump(c, "extra")]

\* a loop over the live keys: a deletion makes the cursor skip the next key
next_extra_index_live(i, d_before, d_after) == IF d_after # d_before THEN i + 2 ELSE i + 1

\* the loop runs over a copy of the keys: a deletion does not move the cursor
next_extra_index(i, d_before, d_after) == i + 1

\* run_totals[key] = run_totals.get(key, 0) + counters[key]
add_totals(totals, c) ==
    [totals EXCEPT !.nf = @ + c.nf, !.add = @ + c.add, !.skip = @ + c.skip,
                   !.extra = @ + c.extra, !.remove = @ + c.remove, !.err = @ + c.err]

\* create_run_totals()
create_run_totals ==
    [files |-> 0, nf |-> 0, add |-> 0, skip |-> 0, extra |-> 0, remove |-> 0, err |-> 0]

NoLast == [key |-> "", status |-> "none", calls |-> <<>>, err_before |-> 0]

\* ------------------------------------------------------------------------
\* Actions of a run: __main__ and update_json
\* ------------------------------------------------------------------------
\* __main__ calls update_json on the next catalog; update_json opens and parses
\* it.  A catalog that does not parse raises out of update_json and, as
\* __main__ has no handler, ends the process.
StartUpdate ==
    /\ pc = "main"
    /\ todo # <<>>
    /\ json_file' = Head(todo)
    /\ IF disk[Head(todo)].ok
       THEN /\ pc' = "keys"
            /\ data' = disk[Head(todo)].data
            /\ language' = Head(todo)
            /\ counters' = ZeroCounters
            /\ key_index' = 1
            /\ last' = NoLast
       ELSE /\ pc' = "crashed"
            /\ UNCHANGED <<data, language, counters, key_index, last>>
    /\ UNCHANGED <<inputs, disk, todo, extra_keys, extra_index, run_totals, written,
                   runs, first_disk>>

\* one iteration of the loop over the corpus keys; an exception leaves the loop
ReconcileKey ==
    /\ pc = "keys"
    /\ key_index <= Len(i18n_dict)
    /\ LET key == i18n_dict[key_index][1]
           r == reconcile_key(data, language, counters, key, i18n_dict[key_index][2], flags)
       IN /\ data' = r.data
          /\ language' = r.language
          /\ counters' = r.counters
          /\ last' = [key |-> key, status |-> r.status, calls |-> r.calls,
                      err_before |-> counters.err]
          /\ IF r.raised
             THEN /\ pc' = "extras"
                  /\ extra_keys' = DictKeys(r.data)
                  /\ extra_index' = 1
                  /\ UNCHANGED key_index
             ELSE /\ key_index' = key_index + 1
                  /\ UNCHANGED <<pc, extra_keys, extra_index>>
    /\ UNCHANGED <<inputs, disk, todo, json_file, run_totals, written, runs, first_disk>>

\* the loop over the corpus keys is exhausted
KeysDone ==
    /\ pc = "keys"
    /\ key_index > Len(i18n_dict)
    /\ pc' = "extras"
    /\ extra_keys' = DictKeys(data)
    /\ extra_index' = 1
    /\ UNCHANGED <<inputs, disk, todo, json_file, data, language, counters, key_index,
                   run_totals, last, written, runs, first_disk>>

\* one iteration of the loop over the catalog keys
ExtraKey ==
    /\ pc = "extras"
    /\ extra_index <= Len(extra_keys)
    /\ LET r == extra_key(data, counters, extra_keys[extra_index], i18n_dict, flags)
       IN /\ data' = r.data
          /\ counters' = r.counters
          /\ extra_index' = next_extra_index(extra_index, data, r.data)
    /\ UNCHANGED <<inputs, disk, pc, todo, json_file, language, key_index, extra_keys,
                   run_totals, last, written, runs, first_disk>>

\* sort, write the catalog, add the counters to the totals, return to __main__
Finish ==
    /\ pc = "extras"
    /\ extra_index > Len(extra_keys)
    /\ LET out == sort_catalog(data, i18n_dict, key_source_positions, flags)
       IN /\ data' = out
          /\ disk' = [disk EXCEPT ![json_file] = [ok |-> TRUE, data |-> out]]
    /\ written' = Append(written, json_file)
    /\ run_totals' = [add_totals(run_totals, counters) EXCEPT !.files = @ + 1]
    /\ todo' = Tail(todo)
    /\ pc' = "main"
    /\ UNCHANGED <<inputs, json_file, language, counters, key_index, extra_keys,
                   extra_index, last, runs, first_disk>>

\* every catalog is processed: the totals are printed and the process ends
EndRun ==
    /\ pc = "main"
    /\ todo = <<>>
    /\ pc' = "done"
    /\ first_disk' = IF runs = 1 THEN disk ELSE first_disk
    /\ UNCHANGED <<inputs, disk, todo, json_file, data, language, counters, key_index,
                   extra_keys, extra_index, run_totals, last, written, runs>>

\* the tool is run again on the same sources and the catalogs it left
RunAgain ==
    /\ pc = "done"
    /\ runs < MaxRuns
    /\ runs' = runs + 1
    /\ todo' = locale_files
    /\ run_totals' = create_run_totals
    /\ written' = <<>>
    /\ pc' = "main"
    /\ UNCHANGED <<inputs, disk, json_file, data, language, counters, key_index,
                   extra_keys, extra_index, last, first_disk>>

\* ------------------------------------------------------------------------
\* Inputs of a run
\* ------------------------------------------------------------------------
GenKeys == {"k1", "K2", "k2"}

\* locales/fr.json and locales/zh-cn.json, named by the subtags of their stem
fr == <<"fr">>

zh_cn == <<"zh", "cn">>

\* the languages update_json can ask for when it works on a catalog
LanguageChain(file) ==
    IF Len(file) < 2 THEN {file} ELSE {file, Regionalize(file), BaseLanguage(file)}

AllFlags ==
    [sort_keys : BOOLEAN, auto_remove : BOOLEAN, auto_add : BOOLEAN, auto_translate : BOOLEAN]

\* the default policy of update_json
DefaultFlags ==
    [sort_keys |-> TRUE, auto_remove |-> FALSE, auto_add |-> TRUE, auto_translate |-> FALSE]

PositionSet == {<<"filea", 1>>, <<"fileb", 0>>}

\* a position for every corpus key (process_source_files), or none at all
\* (update_json called without a position index)
PositionMaps(corpus) == [KeySetOf(corpus) -> PositionSet] \cup {<<>>}

Parsed(d) == [ok |-> TRUE, data |-> d]

Unparsable == [ok |-> FALSE, data |-> <<>>]

\* the state when __main__ has walked the sources and parsed its arguments
Start(corpus, pos, f, files, dsk, sup, bad) ==
    /\ i18n_dict = corpus
    /\ key_source_positions = pos
    /\ flags = f
    /\ locale_files = files
    /\ disk = dsk
    /\ supported = sup
    /\ failing = bad
    /\ pc = "main"
    /\ todo = files
    /\ json_file = <<>>
    /\ data = <<>>
    /\ language = <<>>
    /\ counters = ZeroCounters
    /\ key_index = 1
    /\ extra_keys = <<>>
    /\ extra_index = 1
    /\ run_totals = create_run_totals
    /\ last = NoLast
    /\ written = <<>>
    /\ runs = 1
    /\ first_disk = dsk
    /\ source_files = <<>>
    /\ file_index = 1
    /\ extracted_log = <<>>
    /\ ScannerIdle
    /\ ExtractionIdle

\* one catalog, every policy that does not translate, every position index
PolicyInit ==
    \E c \in DictsOver(GenKeys, {"", "Hi"}, MaxCorpus) :
    \E f \in {g \in AllFlags : ~(g.auto_add /\ g.auto_translate)} :
    \E p \in (IF f.sort_keys THEN PositionMaps(c) ELSE {<<>>}) :
    \E d \in DictsOver(GenKeys, {"old"}, MaxCatalog) \cup DictsOver(GenKeys, {"", "old"}, 1) :
        Start(c, p, f, <<zh_cn>>, [x \in {zh_cn} |-> Parsed(d)], {}, {})

\* the keys of the corpus appear in the order K2, k1, k2
InListingOrder(c) ==
    \A i, j \in 1..Len(c) : i < j => StrLess(CodePoints[c[i][1]], CodePoints[c[j][1]])

\* one catalog, translation enabled, every behaviour of the capability; the
\* corpus keys in one order, as the order plays no part in the translation
TranslateInit ==
    \E c \in {x \in DictsOver(GenKeys, {"", "Hi", "Bye"}, MaxCorpus) : InListingOrder(x)} :
    \E f \in {g \in AllFlags : g.auto_add /\ g.auto_translate} :
    \E d \in DictsOver(GenKeys, {"old"}, 1) :
    \E file \in {fr, zh_cn} :
    \E sup \in SUBSET LanguageChain(file) :
    \E bad \in {{}, {"Bye"}} :
        Start(c, <<>>, f, <<file>>, [x \in {file} |-> Parsed(d)], sup, bad)

CatalogStates == {Unparsable} \cup {Parsed(d) : d \in DictsOver(GenKeys, {"old"}, 1)}

\* two catalogs, each parsable or not
SeveralCatalogsInit ==
    \E c \in DictsOver(GenKeys, {"", "Hi"}, 1) :
    \E f \in {g \in AllFlags : ~(g.auto_add /\ g.auto_translate)} :
    \E files \in {<<fr, zh_cn>>, <<zh_cn, fr>>} :
    \E d1 \in CatalogStates :
    \E d2 \in CatalogStates :
        Start(c, <<>>, f, files, [x \in {fr, zh_cn} |-> IF x = fr THEN d1 ELSE d2], {}, {})

\* the reconcile example of the specification: corpus {greeting, farewell},
\* catalog {greeting: "", stale: "old"}
GreetingInit ==
    \E s \in BOOLEAN :
        Start(<<<<"greeting", "Hi">>, <<"farewell", "">>>>, <<>>,
              [sort_keys |-> s, auto_remove |-> TRUE, auto_add |-> TRUE,
               auto_translate |-> FALSE],
              <<zh_cn>>,
              [x \in {zh_cn} |-> Parsed(<<<<"greeting", "">>, <<"stale", "old">>>>)],
              {}, {})

SortExampleCorpus == <<<<"k2", "Hi">>, <<"k1", "Hi">>, <<"k3", "Hi">>>>

SortExamplePositions ==
    [k \in {"k1", "k2", "k3"} |->
        CASE k = "k2" -> <<"filea", 0>>
          [] k = "k1" -> <<"filea", 1>>
          [] k = "k3" -> <<"fileb", 0>>]

SortExampleCatalog == <<<<"k3", "old">>, <<"k1", "old">>, <<"kExtra", "old">>>>

\* the sort example of the specification
SortExampleInit ==
    Start(SortExampleCorpus, SortExamplePositions, DefaultFlags, <<zh_cn>>,
          [x \in {zh_cn} |-> Parsed(SortExampleCatalog)], {}, {})

Init ==
    \/ PolicyInit
    \/ TranslateInit
    \/ SeveralCatalogsInit
    \/ GreetingInit
    \/ SortExampleInit

Next ==
    \/ StartUpdate
    \/ ReconcileKey
    \/ KeysDone
    \/ ExtraKey
    \/ Finish
    \/ EndRun
    \/ RunAgain

Spec == Init /\ [][Next]_vars


\* ------------------------------------------------------------------------
\* The walk of the sources: process_source_files
\* ------------------------------------------------------------------------
\* normalized relative paths, in the order collect_source_files sorts them
WalkPaths == <<"filea", "fileb", "filec">>

WalkKeys == {"k1"}

WalkValues == {"", "x", "y"}

\* what a file holds: its occurrences <<key, value>> of keys, in document order
FileContents == UNION {[1..m -> WalkKeys \X WalkValues] : m \in 0..MaxOccurrences}

\* one iteration of the loop over the files: read the file, extract, record
\* the first positions, merge into the corpus; contents is what the file may
\* hold
ProcessFileOver(contents) ==
    /\ pc = "walk"
    /\ file_index <= Len(source_files)
    /\ \E source_content \in contents :
        LET file == [source_files[file_index] EXCEPT !.occurrences = source_content]
            extracted == extract_file(file)
        IN /\ source_files' = [source_files EXCEPT ![file_index] = file]
           /\ key_source_positions' =
                 record_positions(key_source_positions, file.path, DictKeys(extracted), 0)
           /\ i18n_dict' = merge_i18n_entries(i18n_dict, extracted)
           /\ extracted_log' = Append(extracted_log, extracted)
    /\ file_index' = file_index + 1
    /\ UNCHANGED <<flags, locale_files, disk, supported, failing, pc, todo, json_file,
                   data, language, counters, key_index, extra_keys, extra_index,
                   run_totals, last, written, runs, first_disk, scanner,
                   extraction>>

ProcessFile == ProcessFileOver(FileContents)

\* process_source_files returns the corpus and the position index to __main__
WalkDone ==
    /\ pc = "walk"
    /\ file_index > Len(source_files)
    /\ pc' = "main"
    /\ UNCHANGED <<inputs, disk, todo, json_file, data, language, counters, key_index,
                   extra_keys, extra_index, run_totals, last, written, runs, first_disk>>

\* __main__ before the walk: up to MaxFiles source files, markup or script,
\* none of them read so far (occurrences is what the walk has read from the
\* file), and one empty catalog
WalkInit ==
    \E n \in 0..MaxFiles :
    \E html \in [1..n -> BOOLEAN] :
        /\ source_files = [i \in 1..n |->
                [path |-> WalkPaths[i], html |-> html[i], occurrences |-> <<>>]]
        /\ file_index = 1
        /\ extracted_log = <<>>
        /\ i18n_dict = <<>>
        /\ key_source_positions = <<>>
        /\ flags = DefaultFlags
        /\ locale_files = <<zh_cn>>
        /\ disk = [x \in {zh_cn} |-> Parsed(<<>>)]
        /\ supported = {}
        /\ failing = {}
        /\ pc = "walk"
        /\ todo = <<zh_cn>>
        /\ json_file = <<>>
        /\ data = <<>>
        /\ language = <<>>
        /\ counters = ZeroCounters
        /\ key_index = 1
        /\ extra_keys = <<>>
        /\ extra_index = 1
        /\ run_totals = create_run_totals
        /\ last = NoLast
        /\ written = <<>>
        /\ runs = 1
        /\ first_disk = [x \in {zh_cn} |-> Parsed(<<>>)]
        /\ ScannerIdle
        /\ ExtractionIdle

NextWalk ==
    \/ ProcessFile
    \/ WalkDone

SpecWalk == WalkInit /\ [][NextWalk]_vars

\* ------------------------------------------------------------------------
\* A run from the walk to the written catalog: __main__ with sort_keys
\* ------------------------------------------------------------------------
\* what a file holds: occurrences of pairwise distinct keys with a default
\* value (an occurrence of a key the file has shown before leaves the keys of
\* the extraction and their order as they are)
SortedRunContents ==
    UNION {{c \in [1..m -> GenKeys \X {"Hi"}] :
                \A i, j \in 1..m : i # j => c[i][1] # c[j][1]} :
           m \in 0..MaxOccurrences}

ProcessSourceFile == ProcessFileOver(SortedRunContents)

\* the catalogs that hold up to MaxCatalog of the keys, in the order k2, k1,
\* K2: the sort takes no account of the order it finds
SortedRunCatalogs ==
    {d \in DictsOver(GenKeys, {"old"}, MaxCatalog) :
        \A i, j \in 1..Len(d) : i < j => StrLess(CodePoints[d[j][1]], CodePoints[d[i][1]])}

\* __main__ before the walk: up to MaxFiles script files with pairwise
\* distinct normalized paths, one catalog, sort_keys enabled, auto_add enabled
\* or not
SortedRunInit ==
    \E n \in 1..MaxFiles :
    \E add \in BOOLEAN :
    \E d \in SortedRunCatalogs :
        /\ source_files = [i \in 1..n |->
                [path |-> WalkPaths[i], html |-> FALSE, occurrences |-> <<>>]]
        /\ file_index = 1
        /\ extracted_log = <<>>
        /\ i18n_dict = <<>>
        /\ key_source_positions = <<>>
        /\ flags = [DefaultFlags EXCEPT !.auto_add = add]
        /\ locale_files = <<zh_cn>>
        /\ disk = [x \in {zh_cn} |-> Parsed(d)]
        /\ supported = {}
        /\ failing = {}
        /\ pc = "walk"
        /\ todo = <<zh_cn>>
        /\ json_file = <<>>
        /\ data = <<>>
        /\ language = <<>>
        /\ counters = ZeroCounters
        /\ key_index = 1
        /\ extra_keys = <<>>
        /\ extra_index = 1
        /\ run_totals = create_run_totals
        /\ last = NoLast
        /\ written = <<>>
        /\ runs = 1
        /\ first_disk = [x \in {zh_cn} |-> Parsed(d)]
        /\ ScannerIdle
        /\ ExtractionIdle

NextSortedRun ==
    \/ ProcessSourceFile
    \/ WalkDone
    \/ StartUpdate
    \/ ReconcileKey
    \/ KeysDone
    \/ ExtraKey
    \/ Finish
    \/ EndRun

SpecSortedRun == SortedRunInit /\ [][NextSortedRun]_vars

\* ------------------------------------------------------------------------
\* The scanner primitives at the start of a literal or comment
\* ------------------------------------------------------------------------
\* the characters of the scanned texts: the quotes, the backslash, the
\* delimiters of comments, regexes, classes and interpolations, a newline and
\* a letter
ScanAlphabet ==
    {"'", "\"", Backtick, "\\", "/", "*", "\n", "$", "{", "}", "[", "]", "g"}

\* every text of up to MaxLen characters
ShortTexts == UNION {[1..m -> ScanAlphabet] : m \in 1..MaxLen}

ScanHexDigits == {"0", "1", "F"}

HexRuns(n) == [1..n -> ScanHexDigits]

\* the escape sequences \xHH, \uHHHH and \u{H+} with up to MaxHexDigits digits
EscapeForms ==
    {<<"\\", "x">> \o h : h \in HexRuns(2)}
        \cup {<<"\\", "u">> \o h : h \in HexRuns(4)}
        \cup UNION {{<<"\\", "u", "{">> \o h \o <<"}">> : h \in HexRuns(n)} :
                        n \in 1..MaxHexDigits}

\* a string or template literal that holds one escape sequence, closed or not
EscapeTexts ==
    UNION {{<<q>> \o e, <<q>> \o e \o <<q>>} :
                q \in {"'", "\"", Backtick}, e \in EscapeForms}

\* the guards under which the scan of a script calls each primitive
AtLineComment(text, i) ==
    At(text, i) = "/" /\ i + 1 < Len(text) /\ At(text, i + 1) = "/"

AtBlockComment(text, i) ==
    At(text, i) = "/" /\ i + 1 < Len(text) /\ At(text, i + 1) = "*"

AtStringLiteral(text, i) == At(text, i) \in {"'", "\""}

AtTemplateLiteral(text, i) == At(text, i) = Backtick

AtRegexLiteral(text, i) ==
    /\ At(text, i) = "/"
    /\ ~AtLineComment(text, i)
    /\ ~AtBlockComment(text, i)
    /\ can_start_regex_literal(text, i)

AtLiteralStart(text, i) ==
    \/ AtLineComment(text, i)
    \/ AtBlockComment(text, i)
    \/ AtStringLiteral(text, i)
    \/ AtTemplateLiteral(text, i)
    \/ AtRegexLiteral(text, i)

\* the call of one primitive at the cursor
Scan(op, result) ==
    /\ pc = "scan"
    /\ scan_op = "none"
    /\ scan_op' = op
    /\ scan_result' = result
    /\ UNCHANGED <<i18n_dict, key_source_positions, flags, locale_files, disk,
                   supported, failing, pc, todo, json_file, data, language, counters,
                   key_index, extra_keys, extra_index, run_totals, last, written,
                   runs, first_disk, source_files, file_index, extracted_log,
                   source, start_index, extraction>>

SkipLineComment ==
    /\ AtLineComment(source, start_index)
    /\ Scan("skip_line_comment", skip_line_comment(source, start_index))

SkipBlockComment ==
    /\ AtBlockComment(source, start_index)
    /\ Scan("skip_block_comment", skip_block_comment(source, start_index))

SkipStringLiteral ==
    /\ AtStringLiteral(source, start_index)
    /\ Scan("skip_string_literal", skip_string_literal(source, start_index))

SkipTemplateLiteral ==
    /\ AtTemplateLiteral(source, start_index)
    /\ Scan("skip_template_literal", skip_template_literal(source, start_index))

SkipRegexLiteral ==
    /\ AtRegexLiteral(source, start_index)
    /\ Scan("skip_regex_literal", skip_regex_literal(source, start_index))

\* a script text and a cursor at the start of a literal or comment
ScanInit ==
    \E text \in ShortTexts \cup EscapeTexts :
    \E i \in {x \in 0..(Len(text) - 1) : AtLiteralStart(text, x)} :
        /\ source = text
        /\ start_index = i
        /\ scan_op = "none"
        /\ scan_result = Returns(i)
        /\ source_files = <<>>
        /\ file_index = 1
        /\ extracted_log = <<>>
        /\ i18n_dict = <<>>
        /\ key_source_positions = <<>>
        /\ flags = DefaultFlags
        /\ locale_files = <<zh_cn>>
        /\ disk = [x \in {zh_cn} |-> Parsed(<<>>)]
        /\ supported = {}
        /\ failing = {}
        /\ pc = "scan"
        /\ todo = <<zh_cn>>
        /\ json_file = <<>>
        /\ data = <<>>
        /\ language = <<>>
        /\ counters = ZeroCounters
        /\ key_index = 1
        /\ extra_keys = <<>>
        /\ extra_index = 1
        /\ run_totals = create_run_totals
        /\ last = NoLast
        /\ written = <<>>
        /\ runs = 1
        /\ first_disk = [x \in {zh_cn} |-> Parsed(<<>>)]
        /\ ExtractionIdle

NextScan ==
    \/ SkipLineComment
    \/ SkipBlockComment
    \/ SkipStringLiteral
    \/ SkipTemplateLiteral
    \/ SkipRegexLiteral

SpecScan == ScanInit /\ [][NextScan]_vars

\* ------------------------------------------------------------------------
\* Markup extraction of one element
\* ------------------------------------------------------------------------
\* the walk and the reconciler at rest, the run at the position p
ToolIdle(p) ==
    /\ source_files = <<>>
    /\ file_index = 1
    /\ extracted_log = <<>>
    /\ i18n_dict = <<>>
    /\ key_source_positions = <<>>
    /\ flags = DefaultFlags
    /\ locale_files = <<zh_cn>>
    /\ disk = [x \in {zh_cn} |-> Parsed(<<>>)]
    /\ supported = {}
    /\ failing = {}
    /\ pc = p
    /\ todo = <<zh_cn>>
    /\ json_file = <<>>
    /\ data = <<>>
    /\ language = <<>>
    /\ counters = ZeroCounters
    /\ key_index = 1
    /\ extra_keys = <<>>
    /\ extra_index = 1
    /\ run_totals = create_run_totals
    /\ last = NoLast
    /\ written = <<>>
    /\ runs = 1
    /\ first_disk = [x \in {zh_cn} |-> Parsed(<<>>)]

\* the walk and the reconciler, the position of the run left out
tool ==
    <<i18n_dict, key_source_positions, flags, locale_files, disk, supported, failing,
      todo, json_file, data, language, counters, key_index, extra_keys, extra_index,
      run_totals, last, written, runs, first_disk, source_files, file_index,
      extracted_log>>

\* attribute names and keys of the modelled elements, one character each
AttrNames == {<<"t">>, <<"a">>}

HtmlKeys == {"k", "j"}

\* a token: empty, a bare key, [attribute]key, [attribute] without a key, or
\* an attribute that is never closed
TokenShapes ==
    {<<>>} \cup {<<k>> : k \in HtmlKeys}
        \cup {<<"[">> \o a \o <<"]", k>> : a \in AttrNames, k \in HtmlKeys}
        \cup {<<"[">> \o a \o <<"]">> : a \in AttrNames}
        \cup {<<"[">> \o a \o <<k>> : a \in AttrNames, k \in HtmlKeys}

\* ";".join(tokens)
RECURSIVE JoinTokens(_)
JoinTokens(tokens) ==
    IF Len(tokens) = 1 THEN Head(tokens)
    ELSE Head(tokens) \o <<";">> \o JoinTokens(Tail(tokens))

MarkerValues ==
    {JoinTokens(tokens) : tokens \in UNION {[1..m -> TokenShapes] : m \in 1..MaxTokens}}

AttrValues == {<<>>, <<"T">>, <<" ", "A", " ">>}

TextValues == {<<>>, <<"X">>, <<" ", "X">>}

\* extract_i18n_keys_from_html on a document of one element
ExtractHtml ==
    /\ pc = "markup"
    /\ html_extracted' = extract_i18n_keys_from_html(html_tag_tokens(html_tag), <<>>)
    /\ pc' = "markup_done"
    /\ UNCHANGED <<tool, scanner, html_tag, listing, script>>

MarkupInit ==
    \E marker \in MarkerValues :
    \E names \in SUBSET AttrNames :
    \E attrs \in [names -> AttrValues] :
    \E text \in TextValues :
        /\ ToolIdle("markup")
        /\ ScannerIdle
        /\ html_tag = [data_i18n |-> marker, attrs |-> attrs, text |-> text]
        /\ html_extracted = <<>>
        /\ ListingIdle
        /\ ScriptIdle

NextMarkup == ExtractHtml

SpecMarkup == MarkupInit /\ [][NextMarkup]_vars

\* ------------------------------------------------------------------------
\* Properties of the markup extraction
\* ------------------------------------------------------------------------
\* C12 as stated: a key that several tokens of one element name is recorded
\* with the value of the earliest of these tokens
C12_FirstTokenWins ==
    pc = "markup_done" =>
        LET tokens == html_tag_tokens(html_tag)
        IN \A n \in 1..Len(tokens) :
                (/\ tokens[n][1] # ""
                 /\ \A m \in 1..(n - 1) : tokens[m][1] # tokens[n][1])
                    => /\ Has(html_extracted, tokens[n][1])
                       /\ Get(html_extracted, tokens[n][1]) = tokens[n][2]

\* ------------------------------------------------------------------------
\* The listing of the source files: collect_source_files
\* A path is a text of atoms: ".", "/" and names that hold neither
\* ------------------------------------------------------------------------
SOURCE_EXTENSIONS ==
    {<<".", "html">>, <<".", "js">>, <<".", "mjs">>, <<".", "cjs">>, <<".", "ts">>,
     <<".", "tsx">>}

EXCLUDED_SEGMENTS ==
    {<<".", "git">>, <<"node_modules">>, <<"dist">>, <<"build">>, <<"coverage">>,
     <<"__pycache__">>}

EXCLUDED_PATH_PREFIXES ==
    <<<<"plugins", "/">>,
      <<"public", "/", "plugins", "/">>,
      <<"user", "/", "plugins", "/">>,
      <<"extensions", "/", "third-party", "/">>,
      <<"scripts", "/", "extensions", "/", "third-party", "/">>,
      <<"public", "/", "scripts", "/", "extensions", "/", "third-party", "/">>>>

\* str.lower() on an atom: the names of the model that hold upper-case letters
LowerAtom(atom) ==
    CASE atom = "Dist" -> "dist"
      [] atom = "GIT" -> "git"
      [] OTHER -> atom

lower(text) == [i \in 1..Len(text) |-> LowerAtom(text[i])]

\* text.lstrip(chars)
RECURSIVE lstrip_chars(_, _)
lstrip_chars(text, chars) ==
    IF text # <<>> /\ Head(text) \in chars THEN lstrip_chars(Tail(text), chars) ELSE text

\* text.rstrip(chars)
RECURSIVE rstrip_chars(_, _)
rstrip_chars(text, chars) ==
    IF text # <<>> /\ text[Len(text)] \in chars
    THEN rstrip_chars(SubSeq(text, 1, Len(text) - 1), chars)
    ELSE text

startswith(text, prefix) ==
    Len(prefix) <= Len(text) /\ SubSeq(text, 1, Len(prefix)) = prefix

endswith(text, suffix) ==
    /\ Len(suffix) <= Len(text)
    /\ SubSeq(text, Len(text) - Len(suffix) + 1, Len(text)) = suffix

\* os.path.join(root, name) relative to the base directory, that is
\* os.path.relpath(path, base_directory) for a path below the base
RelPath(root, name) == IF root = <<>> THEN name ELSE root \o <<"/">> \o name

\* normalize_relative_path on the relative path of a file or directory
normalize_relative_path(relative_path) == lower(lstrip_chars(relative_path, {".", "/"}))

should_skip_path(path) ==
    LET relative_path == normalize_relative_path(path)
        parts == split(relative_path, "/")
        path_segments == {parts[i] : i \in {j \in 1..Len(parts) : parts[j] # <<>>}}
    IN IF relative_path \in {<<>>, <<".">>} THEN FALSE
       ELSE IF \E segment \in path_segments : segment \in EXCLUDED_SEGMENTS THEN TRUE
       ELSE \E n \in 1..Len(EXCLUDED_PATH_PREFIXES) :
                LET prefix == EXCLUDED_PATH_PREFIXES[n]
                    normalized_prefix == rstrip_chars(prefix, {"/"})
                IN relative_path = normalized_prefix \/ startswith(relative_path, prefix)

\* code points of the atoms, for the order of str
AtomPoints ==
    [a \in {".", "/", "git", "GIT", "Dist", "dist", "plugins", "public", "src",
            "node_modules", "x", "n", "js", "md"} |->
        CASE a = "." -> <<46>>
          [] a = "/" -> <<47>>
          [] a = "git" -> <<103, 105, 116>>
          [] a = "GIT" -> <<71, 73, 84>>
          [] a = "Dist" -> <<68, 105, 115, 116>>
          [] a = "dist" -> <<100, 105, 115, 116>>
          [] a = "plugins" -> <<112, 108, 117, 103, 105, 110, 115>>
          [] a = "public" -> <<112, 117, 98, 108, 105, 99>>
          [] a = "src" -> <<115, 114, 99>>
          [] a = "node_modules" ->
                <<110, 111, 100, 101, 95, 109, 111, 100, 117, 108, 101, 115>>
          [] a = "x" -> <<120>>
          [] a = "n" -> <<110>>
          [] a = "js" -> <<106, 115>>
          [] a = "md" -> <<109, 100>>]

RECURSIVE TextPoints(_)
TextPoints(text) ==
    IF text = <<>> THEN <<>> ELSE AtomPoints[Head(text)] \o TextPoints(Tail(text))

\* sorted(texts) on the pairs <<sort key, text>>: stable
RECURSIVE sorted_texts(_)
sorted_texts(pairs) ==
    IF pairs = <<>> THEN <<>>
    ELSE
    LET n == Len(pairs)
        x == pairs[n]
        init == sorted_texts(SubSeq(pairs, 1, n - 1))
        p == Cardinality({i \in 1..Len(init) :
                ~StrLess(TextPoints(x[1]), TextPoints(init[i][1]))})
    IN SubSeq(init, 1, p) \o <<x>> \o SubSeq(init, p + 1, Len(init))

\* sorted(names): the names in the order of str
sorted_names(names) ==
    LET out == sorted_texts([i \in 1..Len(names) |-> <<names[i], names[i]>>])
    IN [i \in 1..Len(out) |-> out[i][2]]

\* the elements of a sequence that satisfy the test, in order
RECURSIVE Keep(_, _)
Keep(items, keep) ==
    IF items = <<>> THEN <<>>
    ELSE (IF Head(items) \in keep THEN <<Head(items)>> ELSE <<>>) \o Keep(Tail(items), keep)

\* the names a directory of the tree can have
DirNames ==
    {<<".", "git">>, <<"Dist">>, <<"node_modules">>, <<"plugins">>, <<"public">>,
     <<"src">>}

\* every directory of the tree holds a script and a file that is no source
FileNames == <<<<"x", ".", "js">>, <<"n", ".", "md">>>>

\* the relative path of the directory at the depth k of the chain
RECURSIVE DirText(_)
DirText(k) == IF k = 0 THEN <<>> ELSE RelPath(DirText(k - 1), tree[k])

\* the subdirectories of the directory root, as os.walk lists them
ChildNames(root) ==
    IF \E k \in 0..(Len(tree) - 1) : DirText(k) = root
    THEN <<tree[(CHOOSE k \in 0..(Len(tree) - 1) : DirText(k) = root) + 1]>>
    ELSE <<>>

\* the files of one directory that the listing accepts
AcceptedFiles(root) ==
    LET names == sorted_names(FileNames)
        paths == [i \in 1..Len(names) |-> RelPath(root, names[i])]
    IN Keep(paths,
            {paths[i] : i \in {j \in 1..Len(names) :
                /\ \E ext \in SOURCE_EXTENSIONS : endswith(lower(names[j]), ext)
                /\ ~should_skip_path(paths[j])}})

\* one iteration of the loop over os.walk(directory)
WalkDirectory ==
    /\ pc = "collect"
    /\ walk_stack # <<>>
    /\ LET root == Head(walk_stack)
           children == ChildNames(root)
           dirs == sorted_names(Keep(children,
                        {children[i] : i \in {j \in 1..Len(children) :
                            ~should_skip_path(RelPath(root, children[j]))}}))
       IN /\ walk_stack' = [i \in 1..Len(dirs) |-> RelPath(root, dirs[i])] \o Tail(walk_stack)
          /\ collected' = collected \o AcceptedFiles(root)
    /\ UNCHANGED <<tool, pc, scanner, markup, tree, script>>

\* the sort of source_files and the return
ReturnCollected ==
    /\ pc = "collect"
    /\ walk_stack = <<>>
    /\ LET out == sorted_texts([i \in 1..Len(collected) |->
                        <<normalize_relative_path(collected[i]), collected[i]>>])
       IN collected' = [i \in 1..Len(out) |-> out[i][2]]
    /\ pc' = "collected"
    /\ UNCHANGED <<tool, scanner, markup, tree, walk_stack, script>>

\* a chain of up to MaxDepth nested directories under the root
ListingInit ==
    \E depth \in 1..MaxDepth :
    \E names \in [1..depth -> DirNames] :
        /\ ToolIdle("collect")
        /\ ScannerIdle
        /\ MarkupIdle
        /\ tree = names
        /\ walk_stack = <<<<>>>>
        /\ collected = <<>>
        /\ ScriptIdle

NextListing ==
    \/ WalkDirectory
    \/ ReturnCollected

SpecListing == ListingInit /\ [][NextListing]_vars

\* ------------------------------------------------------------------------
\* Properties of the listing
\* ------------------------------------------------------------------------
\* the rule of exclusion for the directory at the depth k: one of its path
\* segments equals an excluded name whatever the case, or its relative path
\* in lower case equals or starts with an excluded prefix
RuleExcludes(k) ==
    LET relative_path == lower(DirText(k))
    IN \/ \E i \in 1..k : lower(tree[i]) \in EXCLUDED_SEGMENTS
       \/ \E n \in 1..Len(EXCLUDED_PATH_PREFIXES) :
            \/ relative_path = rstrip_chars(EXCLUDED_PATH_PREFIXES[n], {"/"})
            \/ startswith(relative_path, EXCLUDED_PATH_PREFIXES[n])

\* C13 as stated: should_skip_path holds for exactly the directories the rule
\* excludes, at every depth, and no file below such a directory is listed
C13_Exclusion ==
    pc = "collected" =>
        \A k \in 1..Len(tree) :
            /\ RuleExcludes(k) <=> should_skip_path(DirText(k))
            /\ RuleExcludes(k) =>
                \A i \in 1..Len(collected) :
                    ~startswith(collected[i], DirText(k) \o <<"/">>)

\* ------------------------------------------------------------------------
\* The scan of one script: extract_i18n_keys_from_scripts
\* ------------------------------------------------------------------------
\* one iteration of "while index < len(script_content)"; an exception leaves
\* the function
ScriptStep ==
    /\ pc = "script"
    /\ index < Len(script_content)
    /\ LET iteration(r) ==
            /\ pc' = IF r.raised THEN "script_raised" ELSE "script"
            /\ index' = IF r.raised THEN index ELSE r.index
            /\ script_i18n' = IF r.raised THEN script_i18n ELSE r.i18n
            /\ last_step' = [branch |-> r.branch, from |-> index,
                             recursed |-> r.recursed]
       IN iteration(script_step(script_content, index, script_i18n,
                                has_translation_t_call_binding(script_content)))
    /\ UNCHANGED <<script_content, script_case, tool, scanner, markup, listing>>

\* "return i18n_dict" once the cursor has reached the end of the text
ScriptReturn ==
    /\ pc = "script"
    /\ index >= Len(script_content)
    /\ pc' = "script_done"
    /\ UNCHANGED <<script, tool, scanner, markup, listing>>

\* the recursive call of the template branch on the text of one
\* interpolation, followed as a scan of its own: the call starts with an empty
\* mapping, the offset 0 and the binding of its own text
ScriptDescend ==
    /\ pc = "script"
    /\ \E n \in 1..Len(last_step.recursed) :
        /\ last_step.recursed[n] # <<>>
        /\ script_content' = last_step.recursed[n]
        /\ script_case' = [NoCase EXCEPT !.family = "interpolation",
                                         !.text = last_step.recursed[n]]
    /\ index' = 0
    /\ script_i18n' = <<>>
    /\ last_step' = NoStep
    /\ UNCHANGED <<pc, tool, scanner, markup, listing>>

\* how a scanned text was composed: the offset at of the construct the case
\* is about, the offset reach behind it, the key a call of the text names,
\* the template literal of the text
Case(family, text, at, reach, key, literal) ==
    [family |-> family, text |-> text, at |-> at, reach |-> reach, key |-> key,
     literal |-> literal]

call_translate_k == kw_translate \o <<"(", "\"", "k", "\"", ")">>

call_t_Hi == <<"t", "(", "\"", "H", "i", "\"", ")">>

\* what separates a construct from the statement behind it
Separators == {<<";">>, <<" ">>, <<"\n">>}

Gaps == {<<>>, <<" ">>}

\* a division: the left operand, the slash at the offset at, the rest of the
\* chain, then a call of translate
DivisionOperands == {<<"a">>, <<"1">>, <<")">>, <<"]">>, <<"x", ".", "y">>}

DivisionRests ==
    {<<"b">>, <<" ", "b">>, <<"2">>, <<" ", "b", " ", "/", " ", "c">>}

DivisionCases ==
    {Case("division", lhs \o gap \o <<"/">> \o rest \o sep \o call_translate_k,
          Len(lhs) + Len(gap), Len(lhs) + Len(gap) + 1, "k", <<>>) :
        lhs \in DivisionOperands, gap \in Gaps, rest \in DivisionRests,
        sep \in Separators}

\* a regex literal: what precedes the slash at the offset at, the body, the
\* closing slash, the flags, a method call on the literal, then a call of
\* translate
RegexPrefixes == {<<>>, <<"=">>, <<"x", " ", "=">>, <<"(">>, <<",">>, <<"!">>}

RegexBodies ==
    {<<"f", "o", "o">>, <<"a", "[", "/", "]", "b">>, <<"a", "\\", "/", "b">>, <<"\"">>}

RegexFlags == {<<>>, <<"g">>}

RegexTails == {<<>>, <<".", "t", "e", "s", "t", "(", "x", ")">>}

RegexCases ==
    {Case("regex",
          prefix \o gap \o <<"/">> \o body \o <<"/">> \o flag \o tail \o sep
            \o call_translate_k,
          Len(prefix) + Len(gap),
          Len(prefix) + Len(gap) + 1 + Len(body) + 1 + Len(flag), "k", <<>>) :
        prefix \in RegexPrefixes, gap \in Gaps, body \in RegexBodies,
        flag \in RegexFlags, tail \in RegexTails, sep \in Separators}

\* a closed template literal: the static texts around its interpolations
TemplateStatics == {<<>>, <<"H", "i", " ">>}

\* the expressions of the interpolations
TemplateExpressions ==
    {<<"n">>, <<>>, <<"a", ".", "b">>, <<"\"", "}", "\"">>, <<Backtick, "x", Backtick>>,
     <<"{", "}">>}

RECURSIVE TemplateBody(_, _, _)
TemplateBody(statics, expressions, n) ==
    IF n > Len(expressions) THEN <<>>
    ELSE <<"$", "{">> \o expressions[n] \o <<"}">> \o statics[n + 1]
            \o TemplateBody(statics, expressions, n + 1)

Template(statics, expressions) ==
    <<Backtick>> \o statics[1] \o TemplateBody(statics, expressions, 1) \o <<Backtick>>

\* the static text of the literal, the n-th interpolation replaced by ${n-1}
RECURSIVE PlaceholderText(_, _)
PlaceholderText(statics, n) ==
    IF n > Len(statics) - 1 THEN ""
    ELSE "${" \o ToString(n - 1) \o "}" \o Join(statics[n + 1])
            \o PlaceholderText(statics, n + 1)

TaggedCases ==
    UNION {{Case("tagged", <<"t">> \o Template(statics, expressions), 0,
                 1 + Len(Template(statics, expressions)),
                 Join(statics[1]) \o PlaceholderText(statics, 1),
                 Template(statics, expressions)) :
              statics \in [1..(n + 1) -> TemplateStatics],
              expressions \in [1..n -> TemplateExpressions]} :
           n \in 1..MaxInterpolations}

\* a script that binds t to a translation function
Bindings ==
    {<<"c", "o", "n", "s", "t", " ", "t", " ", "=", " ">> \o kw_translate \o <<";">>,
     <<"l", "e", "t", " ", "t", "=">> \o kw_window_t \o <<"\n">>,
     kw_this_t \o <<"=">> \o kw_i18n_t \o <<";">>}

\* the call t("Hi") under a binding: as a statement, and in the interpolation
\* of an untagged template literal
OutsideCases ==
    {Case("outside", binding \o gap \o call_t_Hi, Len(binding) + Len(gap),
          Len(binding) + Len(gap) + Len(call_t_Hi), "Hi", <<>>) :
        binding \in Bindings, gap \in Gaps}

NestedCases ==
    {Case("nested",
          binding \o <<Backtick>> \o static \o <<"$", "{">> \o call_t_Hi \o <<"}">>
            \o <<Backtick>>,
          Len(binding),
          Len(binding) + 1 + Len(static) + 2 + Len(call_t_Hi) + 2, "Hi",
          <<Backtick>> \o static \o <<"$", "{">> \o call_t_Hi \o <<"}", Backtick>>) :
        binding \in Bindings, static \in TemplateStatics}

\* a call whose parenthesis never closes
CallWords ==
    {kw_translate, kw_applyLocale, kw_attr, kw_setAttribute}

UnclosedArguments ==
    {<<>>, <<"\"", "x", "\"">>, <<"\"", "x", "\"", ",", " ", "(", "y">>,
     <<"\"">> \o kw_data_i18n \o <<"\"", ",", "\"", "k", "\"">>,
     <<"\"">> \o kw_data_i18n \o <<"=", "'", "k", "'", "\"">>}

UnclosedCases ==
    {Case("unclosed", word \o gap \o <<"(">> \o arguments, 0,
          Len(word) + Len(gap) + 1 + Len(arguments), "", <<>>) :
        word \in CallWords, gap \in Gaps, arguments \in UnclosedArguments}
      \cup
    {Case("unclosed", binding \o <<"t">> \o gap \o <<"(">> \o arguments, Len(binding),
          Len(binding) + 1 + Len(gap) + 1 + Len(arguments), "", <<>>) :
        binding \in Bindings, gap \in Gaps, arguments \in UnclosedArguments}

\* every text of up to MaxScriptLen characters of the alphabet of the scan,
\* and a string literal whose escape names no code point
ScriptAlphabet == {"t", "(", ")", "\"", Backtick, "$", "{", "}", "/", "\\"}

ScriptTexts ==
    UNION {[1..m -> ScriptAlphabet] : m \in 1..MaxScriptLen}
      \cup {<<"\"", "\\", "u", "{", "1", "1", "0", "0", "0", "0", "}", "\"">>}

TextCases == {Case("text", text, 0, Len(text), "", <<>>) : text \in ScriptTexts}

ScriptCases ==
    DivisionCases \cup RegexCases \cup TaggedCases \cup OutsideCases \cup NestedCases
      \cup UnclosedCases \cup TextCases

ScriptInit ==
    /\ ToolIdle("script")
    /\ ScannerIdle
    /\ MarkupIdle
    /\ ListingIdle
    /\ script_case \in ScriptCases
    /\ script_content = script_case.text
    /\ index = 0
    /\ script_i18n = <<>>
    /\ last_step = NoStep

NextScript ==
    \/ ScriptStep
    \/ ScriptReturn
    \/ ScriptDescend

SpecScript == ScriptInit /\ [][NextScript]_vars

\* ------------------------------------------------------------------------
\* Properties of the scan of a script
\* ------------------------------------------------------------------------
\* the iteration that started at the offset of the construct of the case
AtConstruct ==
    /\ last_step # NoStep
    /\ last_step.from = script_case.at

\* the cursor never jumps over the offset of the construct
ReachesConstruct ==
    last_step # NoStep /\ last_step.from < script_case.at => index <= script_case.at

\* the mapping that holds the key of the case and nothing else
OnlyKey == <<<<script_case.key, script_case.key>>>>

\* C14: the slash of a division is consumed as one ordinary character, the
\* slash at the start of the text or behind one of ({[,:;=!?&|^~<>+-*% as a
\* regex literal up to its closing slash and flags, and in both cases the
\* translation call behind the construct gives the next key, the only key of
\* the text
C14_RegexOrDivision ==
    script_case.family \in {"division", "regex"} =>
        /\ ReachesConstruct
        /\ AtConstruct =>
            IF script_case.family = "division"
            THEN last_step.branch = "advance" /\ index = script_case.at + 1
            ELSE last_step.branch = "regex" /\ index = script_case.reach
        /\ pc # "script_raised"
        /\ script_i18n # <<>> => script_i18n = OnlyKey /\ index = Len(script_content)
        /\ pc = "script_done" => script_i18n = OnlyKey

\* a regex literal with a slash in a character class, behind "=", was
\* scanned and the call behind it gave its key
C14_Witness ==
    /\ script_case.family = "regex"
    /\ script_case.at > 0
    /\ Contains(script_content, <<"[", "/", "]">>)
    /\ pc = "script_done"
    /\ script_i18n = OnlyKey

C16_NestedCall ==
    /\ script_case.family \in {"outside", "nested"} =>
        /\ has_translation_t_call_binding(script_case.text)
        /\ pc # "script_raised"
        /\ pc = "script_done" => script_i18n = OnlyKey

\* C18 as stated: behind a call word whose parenthesis never closes,
\* parse_js_call_arguments reports failure, the call site records no key, and
\* the scan continues from the offset the argument splitter reached, the end
\* of the text
C18_UnclosedCall ==
    script_case.family = "unclosed" =>
        /\ ReachesConstruct
        /\ LET a == parse_js_call_arguments(script_content,
                        Find(script_content, "(", script_case.at))
           IN a.none /\ ~a.raised /\ a.index = script_case.reach
        /\ AtConstruct => index = script_case.reach /\ script_i18n = <<>>
        /\ pc = "script_done" => script_i18n = <<>>

\* an iteration moves the cursor forward, by one where no pattern matches, and
\* descends only into texts shorter than the scanned text; a recursive call
\* scans a shorter text from the offset 0
ScanProgress ==
    (pc = "script" /\ pc' = "script") =>
        \/ /\ script_content' = script_content
           /\ index' > index
           /\ last_step'.from = index
           /\ last_step'.branch = "advance" => index' = index + 1
           /\ \A n \in 1..Len(last_step'.recursed) :
                Len(last_step'.recursed[n]) < Len(script_content)
        \/ /\ Len(script_content') < Len(script_content)
           /\ index' = 0

\* C19: the cursor strictly increases on every iteration of the scan and
\* every recursive call is made on a strictly shorter text, so that a scan
\* of a finite text takes finitely many iterations
C19_Termination == [][ScanProgress]_vars

\* a scan has returned whose last iteration descended into an interpolation
C19_Witness ==
    /\ pc = "script_done"
    /\ index = Len(script_content)
    /\ last_step.branch = "template"
    /\ last_step.recursed # <<>>

\* ------------------------------------------------------------------------
\* Properties of the scanner primitives
\* ------------------------------------------------------------------------
\* C6: a primitive called at the start of a literal or comment raises nothing
\* and returns an offset greater than the start offset and at most len(text)
C6_ScannersNeverFail ==
    scan_op # "none" =>
        /\ ~scan_result.raised
        /\ start_index < scan_result.index
        /\ scan_result.index <= Len(source)

\* ------------------------------------------------------------------------
\* Properties of the walk
\* ------------------------------------------------------------------------
\* the walk has returned its corpus
Walked == pc = "main" /\ Len(extracted_log) = Len(source_files)

\* the visited files that yield the key, by position in the visiting order
YieldingFiles(k) == {i \in 1..Len(extracted_log) : Has(extracted_log[i], k)}

Yield(i, k) == Get(extracted_log[i], k)

\* C3: when the files A (visited first) and B are the files that yield k, an
\* empty value of one and a non-empty value x of the other give k -> x in
\* either order, and two distinct non-empty values give the value of A; with
\* any number of files k maps to the first non-empty value yielded, in
\* visiting order
C3_MergePrecedence ==
    Walked =>
        \A k \in WalkKeys :
            /\ \A a, b \in 1..Len(extracted_log) :
                (a < b /\ YieldingFiles(k) = {a, b}) =>
                    /\ (Yield(a, k) = "" /\ Yield(b, k) # "") => Get(i18n_dict, k) = Yield(b, k)
                    /\ (Yield(a, k) # "" /\ Yield(b, k) = "") => Get(i18n_dict, k) = Yield(a, k)
                    /\ (Yield(a, k) # "" /\ Yield(b, k) # "") => Get(i18n_dict, k) = Yield(a, k)
            /\ YieldingFiles(k) # {} =>
                /\ Has(i18n_dict, k)
                /\ \A a \in YieldingFiles(k) :
                    (/\ Yield(a, k) # ""
                     /\ \A b \in YieldingFiles(k) : b < a => Yield(b, k) = "")
                        => Get(i18n_dict, k) = Yield(a, k)

\* the first file yields k1 empty, the second yields it non-empty
C3_Witness ==
    /\ Walked
    /\ Len(extracted_log) >= 2
    /\ YieldingFiles("k1") = {1, 2}
    /\ Yield(1, "k1") = ""
    /\ Yield(2, "k1") # ""
    /\ Get(i18n_dict, "k1") = Yield(2, "k1")

\* C4 as stated: a key that has an occurrence with a non-empty value anywhere
\* in the corpus, several occurrences of one file included, ends with a
\* non-empty corpus value
C4_NonEmptyKept ==
    Walked =>
        \A k \in WalkKeys :
            (\E i \in 1..Len(source_files) :
                \E n \in 1..Len(source_files[i].occurrences) :
                    /\ source_files[i].occurrences[n][1] = k
                    /\ source_files[i].occurrences[n][2] # "")
                => (Has(i18n_dict, k) /\ Get(i18n_dict, k) # "")

\* ------------------------------------------------------------------------
\* Properties of the reconciler
\* ------------------------------------------------------------------------
Range(q) == {q[i] : i \in 1..Len(q)}

\* update_json has returned from the catalog json_file in the current run
Returned == pc \in {"main", "done"} /\ written # <<>>

\* C1: a second run with the same corpus and policy on the catalogs the first
\* run wrote leaves every catalog with the same keys, values and key order
C1_Idempotence == (pc = "done" /\ runs = 2) => disk = first_disk

\* the second run has ended and the catalog holds a value the first run added
C1_Witness ==
    /\ pc = "done"
    /\ runs = 2
    /\ \E f \in DOMAIN disk : \E i \in 1..Len(disk[f].data) :
            disk[f].data[i][2] \notin {"", "old"}

GreetingCase ==
    /\ runs = 1
    /\ pc = "main"
    /\ written # <<>>
    /\ i18n_dict = <<<<"greeting", "Hi">>, <<"farewell", "">>>>
    /\ flags.auto_add /\ flags.auto_remove /\ ~flags.auto_translate

\* C2 as stated: the reconcile example yields the catalog {greeting: "Hi"} and
\* the counters notFound=2, added=1, skipped=1, extra=1, removed=1
C2_AsStated ==
    GreetingCase =>
        /\ disk[json_file].data = <<<<"greeting", "Hi">>>>
        /\ counters = [nf |-> 2, add |-> 1, skip |-> 1, extra |-> 1, remove |-> 1, err |-> 0]

\* C2 amended: the reconcile example yields the catalog {greeting: ""} and the
\* counters notFound=1, added=0, skipped=1, extra=1, removed=1: a key that the
\* catalog holds with an empty value is present, neither counted nor filled
C2_Reconcile ==
    GreetingCase =>
        /\ disk[json_file].data = <<<<"greeting", "">>>>
        /\ counters = [nf |-> 1, add |-> 0, skip |-> 1, extra |-> 1, remove |-> 1, err |-> 0]

C2_Witness == GreetingCase /\ disk[json_file].ok /\ flags.sort_keys

\* the order of the claim: (0 if in corpus else 1, path or "", ordinal or the
\* sentinel, case-folded key, key), compared component by component
ClaimPath(k) == IF k \in DOMAIN key_source_positions THEN key_source_positions[k][1] ELSE ""

ClaimOrdinal(k) ==
    IF k \in DOMAIN key_source_positions THEN key_source_positions[k][2] ELSE sys_maxsize

ClaimRank(k) == IF k \in KeySetOf(i18n_dict) THEN 0 ELSE 1

ClaimBefore(a, b) ==
    \/ ClaimRank(a) < ClaimRank(b)
    \/ /\ ClaimRank(a) = ClaimRank(b)
       /\ \/ StrLess(CodePoints[ClaimPath(a)], CodePoints[ClaimPath(b)])
          \/ /\ ClaimPath(a) = ClaimPath(b)
             /\ \/ ClaimOrdinal(a) < ClaimOrdinal(b)
                \/ /\ ClaimOrdinal(a) = ClaimOrdinal(b)
                   /\ \/ StrLess(casefold(CodePoints[a]), casefold(CodePoints[b]))
                      \/ /\ casefold(CodePoints[a]) = casefold(CodePoints[b])
                         /\ StrLess(CodePoints[a], CodePoints[b])

SortExampleCase ==
    /\ runs = 1
    /\ i18n_dict = SortExampleCorpus
    /\ key_source_positions = SortExamplePositions

\* C5: with sort_keys the keys of the written catalog are in the order of the
\* tuple, so corpus keys precede the other keys, and the example of the
\* specification gives [k2, k1, k3, kExtra]
C5_SortOrdering ==
    (Returned /\ flags.sort_keys) =>
        LET ks == DictKeys(disk[json_file].data) IN
        /\ \A i, j \in 1..Len(ks) : i < j => ClaimBefore(ks[i], ks[j])
        /\ \A i, j \in 1..Len(ks) :
                (Has(i18n_dict, ks[i]) /\ ~Has(i18n_dict, ks[j])) => i < j
        /\ SortExampleCase => ks = <<"k2", "k1", "k3", "kExtra">>

C5_Witness ==
    /\ Returned
    /\ flags.sort_keys
    /\ SortExampleCase
    /\ Len(disk[json_file].data) = 4

\* the calls of the translation capability made for the last corpus key
LastCalls == last.calls

\* C7 as stated: a failure of the capability other than the unsupported-locale
\* condition, on the first attempt or on a retry, increments the error counter
\* and leaves the key out of the catalog
C7_OtherFailureCounted ==
    (pc \in {"keys", "extras"} /\ LastCalls # <<>>
        /\ LastCalls[Len(LastCalls)][2] = "other") =>
        /\ counters.err = last.err_before + 1
        /\ ~Has(data, last.key)

\* C8 as stated: for every locale code an unsupported-locale failure of the
\* first attempt is followed by a retry (region upper-cased), an unsupported
\* retry by a second retry with the base language, and no key makes more than
\* three calls
C8_Fallback ==
    (pc \in {"keys", "extras"} /\ LastCalls # <<>>) =>
        /\ Len(LastCalls) <= 3
        /\ LastCalls[1][2] = "unsupported" =>
            /\ Len(LastCalls) >= 2
            /\ Len(LastCalls[1][1]) >= 2 =>
                    LastCalls[2][1] = <<LastCalls[1][1][1], Upper[LastCalls[1][1][2]]>>
            /\ LastCalls[2][2] = "unsupported" =>
                /\ Len(LastCalls) = 3
                /\ LastCalls[3][1] = <<LastCalls[1][1][1]>>

\* C9 as stated: when a translation fails after the fallbacks, the error
\* counter goes up by one and the later corpus keys are still reconciled (each
\* key missing from the catalog is counted as not found), and the catalog is
\* written
C9_KeyGranular ==
    (runs = 1 /\ Returned /\ pc = "main" /\ last.status = "exhausted") =>
        /\ counters.err = last.err_before + 1
        /\ counters.nf =
                Cardinality({i \in 1..Len(i18n_dict) :
                    ~Has(first_disk[json_file].data, i18n_dict[i][1])})
        /\ disk[json_file].ok

\* C10 as stated: a run over several catalogs ends with every parsable catalog
\* written and every unparsable catalog counted as an error
C10_CatalogErrorsCaught ==
    pc \in {"done", "crashed"} =>
        /\ \A i \in 1..Len(locale_files) :
                disk[locale_files[i]].ok => locale_files[i] \in Range(written)
        /\ run_totals.err >= Cardinality({i \in 1..Len(locale_files) :
                                            ~disk[locale_files[i]].ok})

\* C11 as stated: at the time a run aborts on a malformed catalog, the run has
\* overwritten no catalog file
C11_AbortBeforeWrite == pc = "crashed" => written = <<>>

\* the corpus keys with an empty default value that the catalog json_file did
\* not hold when the first run loaded it
EmptyAbsent ==
    {i \in 1..Len(i18n_dict) :
        /\ i18n_dict[i][2] = ""
        /\ ~Has(first_disk[json_file].data, i18n_dict[i][1])}

\* C17 as stated: under every policy, each corpus key with an empty default
\* value that the catalog does not hold is counted once as not found and once
\* as skipped, is not counted as added, and is absent from the written catalog
C17_EmptyNeverAdded ==
    (runs = 1 /\ Returned /\ pc = "main") =>
        /\ counters.skip = Cardinality(EmptyAbsent)
        /\ counters.nf >= Cardinality(EmptyAbsent)
        /\ counters.add <=
                Cardinality({i \in 1..Len(i18n_dict) :
                    /\ i18n_dict[i][2] # ""
                    /\ ~Has(first_disk[json_file].data, i18n_dict[i][1])})
        /\ \A i \in EmptyAbsent : ~Has(disk[json_file].data, i18n_dict[i][1])

\* the place of a key in the insertion order of a mapping
RECURSIVE PlaceIn(_, _)
PlaceIn(d, key) == IF Head(d)[1] = key THEN 1 ELSE 1 + PlaceIn(Tail(d), key)

\* the corpus keys of the catalog d follow one another as in the corpus
InCorpusOrder(d) ==
    \A i, j \in 1..Len(d) :
        (i < j /\ Has(i18n_dict, d[i][1]) /\ Has(i18n_dict, d[j][1]))
            => PlaceIn(i18n_dict, d[i][1]) < PlaceIn(i18n_dict, d[j][1])

\* C20: the corpus and the position index come from one walk over files with
\* pairwise distinct normalized paths; after update_json with sort_keys the
\* corpus keys of the written catalog follow one another as in the corpus
C20_SortedAsCorpus ==
    (Returned /\ flags.sort_keys) => InCorpusOrder(disk[json_file].data)

\* a catalog was written whose corpus keys come from two files and which was
\* loaded with them in the opposite order
C20_Witness ==
    /\ Returned
    /\ pc = "main"
    /\ flags.sort_keys
    /\ Len(source_files) >= 2
    /\ ~InCorpusOrder(first_disk[json_file].data)
    /\ \E k1 \in DOMAIN key_source_positions, k2 \in DOMAIN key_source_positions :
        /\ key_source_positions[k1][1] # key_source_positions[k2][1]
        /\ Has(disk[json_file].data, k1)
        /\ Has(disk[json_file].data, k2)

\* ------------------------------------------------------------------------
\* The counters of update_json
\* ------------------------------------------------------------------------
\* C21: at every point of a reconciliation added + skipped <= notFound and
\* removed <= extra; when update_json has returned under a policy with
\* auto_add and without auto_translate, added + skipped = notFound, and
\* removed = extra with auto_remove, removed = 0 without it
C21_CounterInvariant ==
    /\ counters.add + counters.skip <= counters.nf
    /\ counters.remove <= counters.extra
    /\ (Returned /\ flags.auto_add /\ ~flags.auto_translate) =>
            /\ counters.add + counters.skip = counters.nf
            /\ counters.remove = IF flags.auto_remove THEN counters.extra ELSE 0

\* update_json has returned under auto_add and auto_remove without
\* auto_translate, after it added a key, skipped a key and removed a key
C21_Witness ==
    /\ Returned
    /\ flags.auto_add /\ ~flags.auto_translate /\ flags.auto_remove
    /\ counters.add >= 1
    /\ counters.skip >= 1
    /\ counters.remove >= 1

====
